---- MODULE Spec2Model ----
(***************************************************************************)
(* Encounter-resolution core of quick-time-attack: the scene stack, the    *)
(* gameplay orchestrator's per-frame arbitration (GameplayScene.update),   *)
(* the QTE-hosting scene, the QTE base class, the pause overlay, the       *)
(* player's damage/dash bookkeeping and the enemies' fall/QTE gate.        *)
(*                                                                         *)
(* Time is counted in ticks of 1/300 s, so that every duration of the      *)
(* source (hitstop frames at 60 fps, 0.12 s dash, 0.15 s burrow grace ...) *)
(* is a whole number of ticks.  Geometry (positions, overlaps) is not      *)
(* state: which enemies/bullets/generators overlap the player in a frame   *)
(* is an input of that frame.  The enemies' behaviour timers are not       *)
(* state either: whether a behaviour state's timer has run out in a frame  *)
(* is an input of that frame (the fall timer, the burrow grace, the        *)
(* hitstop, the invulnerability, the dash and the QTE timers are exact).   *)
(* The frame time dt is drawn once per run (1/60 s or the MAX_DT clamp of  *)
(* 1/30 s) and kept for all its updates.                                   *)
(*                                                                         *)
(* Four specifications share the actions and differ in where a run starts  *)
(* and how many gameplay frames it follows: Spec (a QTE from trigger to    *)
(* callback, with pause), SpecFrames (hitstop and frame counting),         *)
(* SpecPair (several enemies in one frame) and SpecLanding (boss-room      *)
(* enemies about to land).                                                 *)
(***************************************************************************)
EXTENDS Integers, Sequences, FiniteSets, TLC

\* ---------------------------------------------------------------- bounds
MaxFrame == 6
PairFrames == 2
QTEFrames == 2
LandingFrames == 2
KnockFrames == 7
BlastFrames == 1
LetterFrames == 4
MaxShots == 3
PoolFrames == 2
MaxEnemies == 2
MaxBullets == 1
NumSpawnTypes == 2
MaxGenerators == 2
MaxFloors == 1

\* ------------------------------------------------------- time and tuning
TicksPerSecond == 60 * 5
MAX_DT == TicksPerSecond \div 30
DtSet == {MAX_DT \div 2, MAX_DT}

QTE_PRIORITY_FRAMES == 3
PLAYER_STARTING_LIVES == 3
PLAYER_MAX_LIVES == 5
BOSS_MAX_HP == 5
INVULN_DURATION == 1 * TicksPerSecond
DASH_DURATION == (12 * TicksPerSecond) \div 100
DASH_COOLDOWN == TicksPerSecond \div 2
SPLASH_DURATION == (3 * TicksPerSecond) \div 2
FALL_DURATION == (4 * TicksPerSecond) \div 10
LAND_DURATION == (35 * TicksPerSecond) \div 100
SQUASH_DURATION == (12 * TicksPerSecond) \div 100
CHALLENGE_FALL == (8 * TicksPerSecond) \div 10
BURROW_GRACE == (15 * TicksPerSecond) \div 100
BOSS_SPAWN_INTERVAL == 4 * TicksPerSecond
NegInfinity == -1000000

Max(a, b) == IF a >= b THEN a ELSE b
Min(a, b) == IF a <= b THEN a ELSE b
Clamp(x, lo, hi) == Max(lo, Min(x, hi))
LowestOf(S) == CHOOSE i \in S : \A j \in S : i <= j
Top(st) == IF Len(st) = 0 THEN "none" ELSE st[Len(st)]
Pop(st) == SubSeq(st, 1, Len(st) - 1)

\* ---------------------------------------------------------- difficulty
LevelTimeUnbounded(levelDepth) == 60 - ((levelDepth - 1) \div 5) * 5

\* getLevelTimeLimit(levelDepth), in seconds; \div rounds down as Math.floor does
getLevelTimeLimit(levelDepth) == Max(30, 60 - ((levelDepth - 1) \div 5) * 5)

\* Math.round(_lerp(a, b, levelDepth, startLevel, endLevel)) for whole a <= b
RoundLerp(a, b, levelDepth, startLevel, endLevel) ==
    LET span == endLevel - startLevel
        t == Clamp(levelDepth - startLevel, 0, span)
    IN  a + (2 * (b - a) * t + span) \div (2 * span)

getChallengeTimeLimit(levelDepth) == IF levelDepth < 10 THEN 20 ELSE 30

\* getChallengeSafeTime(levelDepth), in seconds
getChallengeSafeTime(levelDepth) == IF levelDepth < 10 THEN 10 ELSE 5

\* getChallengeSpawnInterval(levelDepth) = _lerp(3, 1.2, levelDepth, 1, 25)
getChallengeSpawnInterval(levelDepth) ==
    3 * TicksPerSecond - (Clamp(levelDepth - 1, 0, 24) * 18 * TicksPerSecond) \div 240

getChallengeClumpSize(levelDepth) == RoundLerp(1, 3, levelDepth, 1, 20)

getQTETimeLimit(levelDepth) ==
    Max(3, 5 - ((levelDepth - 1) \div 5)) * TicksPerSecond

getBossSpawnInterval(levelDepth) ==
    4 * TicksPerSecond
      - (Clamp(levelDepth - 5, 0, 25) * 5 * TicksPerSecond) \div 50

getBossClumpSize(levelDepth) ==
    (10 + 2 * Clamp(levelDepth - 5, 0, 20) + 20) \div 20

getAvailableTypes(levelDepth) ==
    <<"bat", "gopher">>
      \o (IF levelDepth >= 5 THEN <<"spinningTop", "letter">> ELSE <<>>)
      \o (IF levelDepth >= 9 THEN <<"cowboy", "controller">> ELSE <<>>)

\* the types a random pick is drawn from in the model
TypeChoices(levelDepth) ==
    LET av == getAvailableTypes(levelDepth)
    IN  {av[i] : i \in 1..Min(NumSpawnTypes, Len(av))}

\* LevelManager._selectChallengeType: boss every 5th depth; of the types drawn
\* at random for the other depths the model follows POWER_UP
selectChallengeType(levelDepth) ==
    IF levelDepth % 5 = 0 THEN "BOSS" ELSE "POWER_UP"

LevelAt(levelDepth) == [depth |-> levelDepth, type |-> selectChallengeType(levelDepth)]

HitstopFreeze(timer, frames) == Max(timer, (frames * TicksPerSecond) \div 60)
HitstopFrozen(timer) == timer > 0
HitstopUpdate(timer, dt) == IF timer > 0 THEN timer - dt ELSE timer

\* -------------------------------------------------------------- player
NewPlayer ==
    [lives |-> PLAYER_STARTING_LIVES, invulnerable |-> FALSE, invulnTimer |-> 0,
     dead |-> FALSE, dashing |-> FALSE, dashTimer |-> 0, dashCooldown |-> 0,
     predashInvuln |-> FALSE]

\* a damage() that takes a life whatever the player's state
DamageAlways(p) == TRUE

\* Player.damage(): the boolean it returns
DamageApplies(p) == ~(p.invulnerable \/ p.dead)

\* Player.damage(): the player afterwards
Damage(p) ==
    IF ~DamageApplies(p) THEN p
    ELSE IF p.lives - 1 <= 0
         THEN [p EXCEPT !.lives = 0, !.dead = TRUE]
         ELSE [p EXCEPT !.lives = p.lives - 1, !.invulnerable = TRUE,
                        !.invulnTimer = INVULN_DURATION]

undoDamage(p) ==
    [p EXCEPT !.lives = p.lives + 1, !.invulnerable = FALSE,
              !.invulnTimer = 0, !.dead = FALSE]

\* a heart bonus without the cap
addLifeUncapped(p) == [p EXCEPT !.lives = p.lives + 1]

addLife(p) ==
    IF p.lives >= PLAYER_MAX_LIVES THEN p ELSE [p EXCEPT !.lives = p.lives + 1]

\* Player.update(dt, walls) up to the dash movement: invulnerability, dash
\* cooldown, dash start
PlayerDashStart(p, dt, dashPressed) ==
    LET p1 == IF p.invulnerable /\ ~p.dashing
              THEN IF p.invulnTimer - dt <= 0
                   THEN [p EXCEPT !.invulnerable = FALSE, !.invulnTimer = 0]
                   ELSE [p EXCEPT !.invulnTimer = p.invulnTimer - dt]
              ELSE p
        p2 == IF ~p1.dashing /\ p1.dashCooldown > 0
              THEN [p1 EXCEPT !.dashCooldown = p1.dashCooldown - dt]
              ELSE p1
    IN  IF dashPressed /\ p2.dashCooldown <= 0 /\ ~p2.dashing
        THEN [p2 EXCEPT !.dashing = TRUE, !.dashTimer = DASH_DURATION,
                        !.dashCooldown = DASH_COOLDOWN,
                        !.predashInvuln = p2.invulnerable,
                        !.invulnerable = TRUE]
        ELSE p2

\* the rest of Player.update: the dash timer and the end of the dash
PlayerDashEnd(p3, dt) ==
    IF ~p3.dashing THEN p3
    ELSE IF p3.dashTimer - dt <= 0
         THEN IF ~p3.predashInvuln
              THEN [p3 EXCEPT !.dashTimer = p3.dashTimer - dt, !.dashing = FALSE,
                              !.invulnerable = FALSE, !.invulnTimer = 0]
              ELSE [p3 EXCEPT !.dashTimer = p3.dashTimer - dt, !.dashing = FALSE]
         ELSE [p3 EXCEPT !.dashTimer = p3.dashTimer - dt]

\* Player.update(dt, walls)
PlayerUpdate(p, dt, dashPressed) ==
    IF p.dead THEN p ELSE PlayerDashEnd(PlayerDashStart(p, dt, dashPressed), dt)

\* ------------------------------------------------------------- enemies
EnemyTypes ==
    {"bat", "gopher", "spinningTop", "letter", "cowboy", "controller", "heart", "clock"}

\* the state each constructor (and resetToIdle) puts the enemy in
DefaultState(type) ==
    CASE type = "bat" -> "flutter"
      [] type = "gopher" -> "underground"
      [] type = "spinningTop" -> "idle"
      [] type = "letter" -> "aiming"
      [] type = "cowboy" -> "running"
      [] type = "controller" -> "idle"
      [] type = "heart" -> "fleeing"
      [] OTHER -> "idle"

\* the state the behaviour moves to when the current state's timer runs out
NextState(type, state) ==
    CASE type = "bat" ->
           (CASE state = "flutter" -> "windup" [] state = "windup" -> "lunge"
              [] OTHER -> "flutter")
      [] type = "gopher" ->
           (CASE state = "underground" -> "emerging" [] state = "emerging" -> "fire"
              [] state = "fire" -> "idle" [] state = "idle" -> "burrowing"
              [] OTHER -> "underground")
      [] type = "spinningTop" ->
           (CASE state = "idle" -> "winding" [] state = "winding" -> "firing"
              [] state = "firing" -> "toppling" [] OTHER -> "idle")
      [] type = "letter" ->
           (CASE state = "aiming" -> "waiting" [] state = "waiting" -> "teleporting"
              [] OTHER -> "aiming")
      [] type = "cowboy" ->
           (CASE state = "running" -> "telegraph" [] state = "telegraph" -> "cooldown"
              [] OTHER -> "running")
      [] type = "controller" ->
           (CASE state = "idle" -> "flash" [] OTHER -> "idle")
      [] type = "heart" -> "fleeing"
      [] OTHER -> "idle"

\* a setState that runs the hooks even when the state does not change
setStateUnguarded(e, newState) ==
    IF e.type = "gopher" /\ newState = "underground"
    THEN [e EXCEPT !.state = newState, !.burrowGrace = BURROW_GRACE]
    ELSE [e EXCEPT !.state = newState]

\* Enemy.setState with the subclass's onStateEnter (Gopher re-arms its grace)
setState(e, newState) ==
    IF newState = e.state THEN e
    ELSE IF e.type = "gopher" /\ newState = "underground"
         THEN [e EXCEPT !.state = newState, !.burrowGrace = BURROW_GRACE]
         ELSE [e EXCEPT !.state = newState]

\* new EnemyClass({...}): Enemy's constructor, then the subclass's setState
NewEnemy(type) ==
    setState([type |-> type, active |-> TRUE, state |-> "idle", falling |-> FALSE,
              fallTimer |-> 0, fallDuration |-> 0, justLanded |-> FALSE,
              burrowGrace |-> 0],
             DefaultState(type))

startFall(e, duration) ==
    [e EXCEPT !.falling = TRUE, !.fallTimer = 0, !.fallDuration = duration]

takeDamage(e) == [e EXCEPT !.active = FALSE]

\* applyKnockback ends in resetToIdle(), i.e. setState(default state)
applyKnockback(e) == setState(e, DefaultState(e.type))

\* the subclasses whose update() carries the falling branch of Enemy.update
HandlesFall(type) == type \in {"spinningTop", "heart"}

\* get canTriggerQTE of the base class
EnemyCanTriggerQTE(e) == e.active /\ e.state # "stunned" /\ ~e.falling

\* get canTriggerQTE, per class
canTriggerQTE(e) ==
    CASE e.type \in {"spinningTop", "heart"} ->
           e.active /\ e.state # "stunned" /\ ~e.falling /\ ~e.justLanded
      [] e.type = "bat" ->
           e.active /\ e.state # "lunge" /\ e.state # "stunned"
      [] e.type = "gopher" ->
           IF ~e.active \/ e.state = "stunned" THEN FALSE
           ELSE IF e.state = "underground" THEN e.burrowGrace > 0
           ELSE TRUE
      [] OTHER -> e.active /\ e.state # "stunned"

\* the types whose update spawns bullets
Shoots(type) == type \notin {"bat", "heart"}

isLunging(e) == e.type = "bat" /\ e.state = "lunge"

\* EnemyClass.update(dt, ...): timerOut says the current state's timer ran out
EnemyUpdate(e, dt, timerOut) ==
    IF ~e.active THEN e
    ELSE IF HandlesFall(e.type) /\ e.falling
    THEN IF e.fallTimer + dt >= e.fallDuration
         THEN [e EXCEPT !.fallTimer = e.fallTimer + dt, !.falling = FALSE,
                        !.justLanded = TRUE]
         ELSE [e EXCEPT !.fallTimer = e.fallTimer + dt]
    ELSE
    LET e1 == IF e.type = "gopher" /\ e.state = "underground" /\ e.burrowGrace > 0
              THEN [e EXCEPT !.burrowGrace = e.burrowGrace - dt]
              ELSE e
    IN  IF timerOut THEN setState(e1, NextState(e1.type, e1.state)) ELSE e1

\* GameplayScene._checkQTECollision: first overlapping QTE-able enemy, or 0
checkQTECollision(es, overlaps) ==
    LET cands == {i \in 1..Len(es) : es[i].active /\ canTriggerQTE(es[i]) /\ i \in overlaps}
    IN  IF cands = {} THEN 0 ELSE LowestOf(cands)

\* ------------------------------------------------------------- geometry
\* Positions are followed for one bat and the player on a horizontal line through
\* both centres, away from the walls, in units of 1/6 px.
PLAYER_SPEED == 250
DASH_SPEED == 800
BAT_SPEED == 100
LUNGE_SPEED_MULT == 3
RETREAT_KNOCKBACK_FORCE == 300
KNOCKBACK_FORCE == 400
ENTITY_SIZE == 32
FAIL_PUSH == 40
UnitsPerPx == 6

Abs(x) == IF x < 0 THEN -x ELSE x

Sgn(x) == IF x > 0 THEN 1 ELSE IF x < 0 THEN -1 ELSE 0

Travel(v, dt) == Sgn(v) * ((Abs(v) * dt * UnitsPerPx) \div TicksPerSecond)

\* v * getDifficulty(levelDepth), getDifficulty(d) = 1 + (d - 1) * 0.08
Scaled(v, levelDepth) == v + (v * 8 * (levelDepth - 1)) \div 100

\* Bat constructor: speed = BAT_SPEED * difficulty
BatSpeed(levelDepth) == Scaled(BAT_SPEED, levelDepth)

\* idx = 0: no positions are followed. at = player.x - enemy.x; lastDir, dashDir =
\* the player's _lastDirX, dashDirX; kb = the bat's knockbackVx; lunge = the sign
\* of its lungeVx; failed = the enemy whose QTE failed since the last unfrozen frame
NoGeo == [idx |-> 0, at |-> 0, lastDir |-> 1, dashDir |-> 0, kb |-> 0, speed |-> 0,
          lunge |-> 0, failed |-> 0]

NewGeo(idx, at, levelDepth) ==
    [NoGeo EXCEPT !.idx = idx, !.at = at, !.speed = BatSpeed(levelDepth)]

\* checkAABB for two 32 x 32 boxes with equal y
checkAABB(at) == Abs(at) < ENTITY_SIZE * UnitsPerPx

\* Enemy._updateKnockback: the friction factor exp(-5 dt), in thousandths
DecayOf(dt) == IF dt * 60 <= TicksPerSecond THEN 920 ELSE 846

KnockbackDecay(v, dt) ==
    LET d == Sgn(v) * ((Abs(v) * DecayOf(dt)) \div 1000)
    IN  IF Abs(d) < 1 THEN 0 ELSE d

\* Player.update: the movement of this frame along the line
GeoPlayer(g, p, dt, dash, walk) ==
    IF p.dead THEN g
    ELSE LET lastDir == IF walk # 0 THEN walk ELSE g.lastDir
             started == PlayerDashStart(p, dt, dash).dashing /\ ~p.dashing
             dashDir == IF started THEN lastDir ELSE g.dashDir
         IN  [g EXCEPT !.lastDir = lastDir, !.dashDir = dashDir,
                       !.at = IF PlayerDashStart(p, dt, dash).dashing
                              THEN g.at + dashDir * Travel(DASH_SPEED, dt)
                              ELSE g.at + walk * Travel(PLAYER_SPEED, dt)]

\* Bat.update: knockback, then flutter / windup / lunge; drift = cos(moveAngle)
GeoBat(g, e, dt, timerOut, drift) ==
    IF ~e.active THEN g
    ELSE LET at1 == g.at - Travel(g.kb, dt)
             g1 == [g EXCEPT !.at = at1, !.kb = KnockbackDecay(g.kb, dt)]
         IN  CASE e.state = "flutter" -> [g1 EXCEPT !.at = at1 - drift * Travel(g.speed, dt)]
               [] e.state = "windup" ->
                    IF timerOut THEN [g1 EXCEPT !.lunge = IF at1 < 0 THEN -1 ELSE 1] ELSE g1
               [] e.state = "lunge" ->
                    [g1 EXCEPT !.at = at1 - g.lunge * Travel(LUNGE_SPEED_MULT * g.speed, dt)]
               [] OTHER -> g1

\* the positions after player.update and the enemy updates of one frame
GeoFrame(g, p, es, dt, dash, walk, timerOut, drift) ==
    IF g.idx = 0 THEN g
    ELSE [GeoBat(GeoPlayer(g, p, dt, dash, walk), es[g.idx], dt, g.idx \in timerOut, drift)
            EXCEPT !.failed = 0]

\* the overlaps a frame reports agree with the positions that are followed
GeoAgrees(g, es, overlaps) ==
    (g.idx # 0 /\ (es[g.idx].active \/ es[g.idx].justLanded))
        => ((g.idx \in overlaps) <=> checkAABB(g.at))

\* onFail: the player is pushed 40 px away from the enemy, the enemy is knocked
\* back away from where the player then is (in a random direction when both
\* are at the same place)
GeoFail(g, idx, away) ==
    IF g.idx = 0 \/ g.idx # idx THEN g
    ELSE LET at1 == g.at + Sgn(g.at) * FAIL_PUSH * UnitsPerPx
         IN  [g EXCEPT !.at = at1, !.failed = idx,
                       !.kb = IF at1 = 0 THEN away * RETREAT_KNOCKBACK_FORCE
                              ELSE -Sgn(at1) * RETREAT_KNOCKBACK_FORCE]

\* onSuccess blast: an enemy in the blast radius is knocked away from its centre
GeoBlast(g, knock, away) ==
    IF g.idx # 0 /\ g.idx \in knock THEN [g EXCEPT !.kb = away * KNOCKBACK_FORCE] ELSE g

\* ---------------------------------------------------------- bullet pool
\* Times in ticks; a bullet's x in px * TicksPerSecond on one line, so that
\* x += vx * dt is exact.  id and by are history: the serial number of the
\* spawn that initialised the slot last and the enemy that asked for it.
SOFT_CAP == 200
FADE_DURATION == (3 * TicksPerSecond) \div 10
BULLET_RADIUS == 5
DEFAULT_LIFETIME == 5 * TicksPerSecond
INITIAL_SIZE == 256

\* new Bullet()
NewBullet ==
    [active |-> FALSE, x |-> 0, vx |-> 0, color |-> "#ff4444", radius |-> BULLET_RADIUS,
     lifetime |-> 0, maxLifetime |-> DEFAULT_LIFETIME, fading |-> FALSE, fadeTimer |-> 0,
     id |-> 0, by |-> "none"]

\* Bullet.init(opts): the colour asked for is not used
BulletInit(b, opts) ==
    [b EXCEPT !.x = opts.x, !.vx = opts.vx, !.color = "#ff4444", !.radius = opts.radius,
              !.lifetime = 0, !.maxLifetime = opts.lifetime, !.active = TRUE,
              !.fading = FALSE, !.fadeTimer = 0, !.id = opts.id, !.by = opts.by]

\* Bullet.update(dt): move, age, fade
BulletUpdate(b, dt) ==
    IF ~b.active THEN b
    ELSE LET m == [b EXCEPT !.x = b.x + b.vx * dt, !.lifetime = b.lifetime + dt]
         IN  IF m.lifetime >= m.maxLifetime THEN [m EXCEPT !.active = FALSE]
             ELSE IF m.fading
             THEN [m EXCEPT !.fadeTimer = m.fadeTimer + dt,
                            !.active = m.fadeTimer + dt < FADE_DURATION]
             ELSE m

CheckWallsSparesFading(b, hit) ==
    IF b.active /\ hit /\ ~b.fading THEN [b EXCEPT !.active = FALSE] ELSE b

\* Bullet.checkWalls(walls): hit says the circle overlaps a wall
BulletCheckWalls(b, hit) == IF b.active /\ hit THEN [b EXCEPT !.active = FALSE] ELSE b

DropBullet(b) == [b EXCEPT !.active = FALSE]

\* Bullet.startFade()
startFade(b) == IF b.fading THEN b ELSE [b EXCEPT !.fading = TRUE, !.fadeTimer = 0]

ActiveSlots(pl) == {i \in 1..Len(pl) : pl[i].active}

\* BulletPool.spawn: the slot it takes
SpawnSlot(pl) ==
    IF \E i \in 1..Len(pl) : ~pl[i].active
    THEN LowestOf({i \in 1..Len(pl) : ~pl[i].active})
    ELSE Len(pl) + 1

\* BulletPool.spawn(opts): the pool afterwards; the bullet returned is slot
\* SpawnSlot(pl) of it
PoolSpawn(pl, opts) ==
    LET k == SpawnSlot(pl)
    IN  IF k <= Len(pl) THEN [pl EXCEPT ![k] = BulletInit(pl[k], opts)]
        ELSE Append(pl, BulletInit(NewBullet, opts))

\* active.sort((a, b) => b.lifetime - a.lifetime), a stable sort: the first n
\* slots of the sorted list
RECURSIVE OldestFirst(_, _, _)
OldestFirst(pl, S, n) ==
    IF n = 0 \/ S = {} THEN <<>>
    ELSE LET top == CHOOSE t \in {pl[i].lifetime : i \in S} :
                        \A i \in S : pl[i].lifetime <= t
             k == LowestOf({i \in S : pl[i].lifetime = top})
         IN  <<k>> \o OldestFirst(pl, S \ {k}, n - 1)

\* BulletPool.update, the loop: each active bullet's update and checkWalls
UpdateEach(pl, dt, walled) ==
    [i \in 1..Len(pl) |-> BulletCheckWalls(BulletUpdate(pl[i], dt), i \in walled)]

\* an update that leaves the bullets beyond the cap as they are
LeaveExcess(p1) == p1

\* BulletPool.update, the soft cap: startFade on the oldest of the excess
EnforceSoftCap(p1) ==
    LET excess == Cardinality(ActiveSlots(p1)) - SOFT_CAP
    IN  IF excess <= 0 THEN p1
        ELSE LET old == OldestFirst(p1, ActiveSlots(p1), excess)
                 fade == {old[j] : j \in 1..Len(old)}
             IN  [i \in 1..Len(p1) |-> IF i \in fade THEN startFade(p1[i]) ELSE p1[i]]

\* BulletPool.update(dt, walls)
PoolUpdate(pl, dt, walled) == EnforceSoftCap(UpdateEach(pl, dt, walled))

\* ------------------------------------------------------------ QTE base
NoQTE == [timeLimit |-> 0, elapsed |-> 0, completed |-> FALSE, result |-> "none"]

\* new QTE({timeLimit, enemy}); result "null" is JavaScript's null (pending)
NewQTE(timeLimit) ==
    [timeLimit |-> timeLimit, elapsed |-> 0, completed |-> FALSE, result |-> "null"]

succeedUnguarded(q) == [q EXCEPT !.completed = TRUE, !.result = "success"]

succeed(q) == IF q.completed THEN q ELSE [q EXCEPT !.completed = TRUE, !.result = "success"]

fail(q) == IF q.completed THEN q ELSE [q EXCEPT !.completed = TRUE, !.result = "fail"]

\* QTE.update(dt): the countdown and the automatic failure
QTEUpdateLate(q, dt) ==
    IF q.completed THEN q
    ELSE LET q1 == [q EXCEPT !.elapsed = q.elapsed + dt]
         IN  IF q1.elapsed > q1.timeLimit THEN fail(q1) ELSE q1

QTEUpdate(q, dt) ==
    IF q.completed THEN q
    ELSE LET q1 == [q EXCEPT !.elapsed = q.elapsed + dt]
         IN  IF q1.elapsed >= q1.timeLimit THEN fail(q1) ELSE q1

\* what a mini-game's own rule does in one update or input event
SubOutcomes == {"none", "succeed", "fail"}
SubclassStep(q, sub) ==
    CASE sub = "succeed" -> succeed(q)
      [] sub = "fail" -> fail(q)
      [] OTHER -> q

\* ----------------------------------------------------------- QTE scene
NoSubject == [kind |-> "none", idx |-> 0]

\* new QTEScene(game, {enemy, levelDepth, onSuccess, onFail})
NewQTEScene(subject) ==
    [enemy |-> subject, qte |-> NoQTE, splashTimer |-> 0, splashDone |-> FALSE]

\* QTEScene.enter(): creates the QTE once, keeps it when returning from pause.
\* _createQTE hands getQTETimeLimit(levelDepth) to the mini-game; the mini-games
\* that substitute a fixed limit of their own differ in the value only.
QTESceneEnterFresh(sc, levelDepth) ==
    [sc EXCEPT !.qte = NewQTE(getQTETimeLimit(levelDepth))]

QTESceneEnter(sc, levelDepth) ==
    IF sc.qte # NoQTE THEN sc
    ELSE [sc EXCEPT !.qte = NewQTE(getQTETimeLimit(levelDepth))]

\* ------------------------------------------------------------- the state
VARIABLES
    scenes,             \* Game.scenes, bottom first
    level,              \* levelManager.levelDepth / challengeType
    frameCount,
    bulletDamageFrame,
    qteActive,
    freezeTimer,        \* hitstop.freezeTimer
    player,
    enemies,
    bullets,            \* number of active bullets in the pool
    generators,         \* generators[g] = completed
    bossHP,
    bossSpawnTimer,
    gameOverPushed,
    run,                \* the level's timer, exit hole and transition, where followed
    qteScene,           \* the QTEScene object pushed last
    hit,                \* history: lives before the last bullet damage, active frames since
    frameTime,          \* dt of every update of this run
    called,             \* history: callbacks invoked by the QTEScene pushed last
    late,               \* history: succeed() or fail() was called on a completed QTE
    finished,           \* history: the QTE of the scene popped last, as its update left it
    ev,                 \* history: what the last step did
    geo,                \* positions of the player and one bat, where followed
    blast,              \* history: the blast of the last QTE callback, where recorded
    pool,               \* BulletPool.pool, where the bullets are followed one by one
    letter,             \* a Letter and what it holds of the pool
    trail,              \* history: spawns counted, where each bullet died, the last call
    machine,            \* one enemy's state machine and the hooks of its last call
    unit                \* the one object a unit-level specification follows

vars == <<scenes, level, frameCount, bulletDamageFrame, qteActive, freezeTimer, player,
          enemies, bullets, generators, bossHP, bossSpawnTimer, gameOverPushed, run,
          qteScene, frameTime, hit, called, late, finished, ev, geo, blast, pool,
          letter, trail, machine, unit>>

gameVars == <<level, frameCount, bulletDamageFrame, qteActive, freezeTimer, player,
              enemies, bullets, generators, bossHP, bossSpawnTimer, gameOverPushed, run, geo,
              blast, pool, letter, trail, machine, unit>>

\* what the last completed QTE's callback did, recorded where on is set: the
\* enemies before and after it, their and the bullets' offsets from the blast
\* centre, the offsets of the bullets still active, the impulses given
NoBlast == [on |-> FALSE, cb |-> "none", subject |-> NoSubject, before |-> <<>>,
            after |-> <<>>, where |-> <<>>, bwhere |-> <<>>, left |-> <<>>,
            knocked |-> <<>>]

\* a bullet that has not died
Alive == [dead |-> FALSE, x |-> 0]

\* no Letter is followed: state, x and activeBullet (a slot of the pool, 0 for
\* null) are the Letter's fields; first says it is updated before the other
\* enemy; fired and shots are history, the serial number of the bullet it spawned
\* last and the number of bullets it spawned
NoLetter == [state |-> "none", x |-> 0, activeBullet |-> 0, first |-> FALSE,
             fired |-> 0, shots |-> 0]

\* serial = spawns so far; died[id] = where the bullet of spawn id was
\* deactivated; ticks = pool updates so far; spawn = the slot returned by the
\* last BulletPool.spawn and the options it was given; update = the inputs of
\* the last BulletPool.update
NoSpawn == [slot |-> 0, req |-> <<>>]

NoUpdate == [walled |-> {}, dt |-> 0]

NoTrail == [serial |-> 0, died |-> <<>>, ticks |-> 0, spawn |-> NoSpawn,
            update |-> NoUpdate]

\* the gameplay specifications count the bullets and follow none
\* the enemy whose hooks are not followed
NoMachine == [type |-> "none", state |-> "idle", stateTimer |-> 0, hasPath |-> FALSE,
              call |-> "none", dt |-> 0, log |-> <<>>]

\* no object followed on its own
NoUnit == [kind |-> "none"]

\* this.transition of a scene that is not between two levels
NoTransition == [phase |-> "none", timer |-> 0]

\* the level's timer, challenge and exit are not followed
NoRun ==
    [on |-> FALSE, levelTimer |-> 0, timerActive |-> FALSE, challengeComplete |-> FALSE,
     exitHole |-> FALSE, challengeFleeMode |-> FALSE, challengeSpawnTimer |-> 0,
     transition |-> NoTransition, floors |-> 0, wins |-> 0, overs |-> 0]

\* _initLevel(): the timer, the challenge state and the exit hole of a new level;
\* floors, wins and overs count the levels begun, the QTEs won and the game-over
\* scenes pushed
NewRun(lvl) ==
    [on |-> TRUE,
     levelTimer |-> TicksPerSecond * (IF lvl.type = "CHALLENGE"
                                      THEN getChallengeTimeLimit(lvl.depth)
                                      ELSE getLevelTimeLimit(lvl.depth)),
     timerActive |-> lvl.type # "COFFEE_BREAK",
     challengeComplete |-> lvl.type \in {"COFFEE_BREAK", "CHALLENGE"},
     exitHole |-> lvl.type \in {"COFFEE_BREAK", "CHALLENGE"},
     challengeFleeMode |-> lvl.type = "CHALLENGE",
     challengeSpawnTimer |-> 0,
     transition |-> NoTransition, floors |-> 0, wins |-> 0, overs |-> 0]

Unfollowed ==
    /\ pool = <<>> /\ letter = NoLetter /\ trail = NoTrail /\ machine = NoMachine
    /\ unit = NoUnit

\* what the last gameplay frame did
NoEv ==
    [frozen |-> FALSE, counted |-> 0, trigger |-> NoSubject, undone |-> FALSE,
     consumed |-> 0, bulletDmg |-> FALSE, lungeDmg |-> FALSE, landDmg |-> FALSE,
     stale |-> FALSE, gated |-> FALSE, touched |-> FALSE, hitsOffered |-> 0,
     lungeOffered |-> FALSE, missed |-> 0, timeUp |-> FALSE, fled |-> FALSE,
     exited |-> FALSE, lungeNear |-> FALSE]

NoFinished == [expired |-> FALSE, completed |-> FALSE, result |-> "none"]

NoHit == [lives |-> 0, since |-> -1]

\* POWER_UP_LAYOUT: one generator in each of the four rooms around the start room
GeneratorCount(type) == IF type = "POWER_UP" THEN Min(4, MaxGenerators) ELSE 0

\* spawnEnemies(): enemies placed at level start (none in a boss room)
InitialEnemies(lvl, most) ==
    IF lvl.type \in {"BOSS", "CHALLENGE", "COFFEE_BREAK"} THEN {<<>>}
    ELSE UNION {[1..n -> {NewEnemy(t) : t \in TypeChoices(lvl.depth)}] : n \in 1..most}

\* GameplayScene.enter() and _initLevel() of a run standing at one of the levels
InitLevel(lvl) ==
    /\ scenes = <<"menu", "gameplay">>
    /\ level = lvl
    /\ frameTime \in DtSet
    /\ bulletDamageFrame = NegInfinity
    /\ qteActive = FALSE
    /\ freezeTimer = 0
    /\ player = NewPlayer
    /\ bullets = 0
    /\ generators = [g \in 1..GeneratorCount(lvl.type) |-> FALSE]
    /\ bossHP = IF lvl.type = "BOSS" THEN BOSS_MAX_HP ELSE 0
    /\ gameOverPushed = FALSE
    /\ qteScene = NewQTEScene(NoSubject)
    /\ hit = NoHit
    /\ called = <<>>
    /\ late = FALSE
    /\ finished = NoFinished
    /\ ev = NoEv
    /\ Unfollowed

InitOf(lvls, most) ==
    \E lvl \in lvls :
        /\ InitLevel(lvl)
        /\ geo = NoGeo
        /\ blast = NoBlast
        /\ run = NoRun
        /\ frameCount = 0
        /\ enemies \in InitialEnemies(lvl, most)
        /\ bossSpawnTimer = IF lvl.type = "BOSS" THEN BOSS_SPAWN_INTERVAL ELSE 0

\* -------------------------------------------------- GameplayScene.update
Indices(es) == 1..Len(es)

ClearLanded(es) == [i \in Indices(es) |-> [es[i] EXCEPT !.justLanded = FALSE]]

\* _spawnChallengeEnemy(): a new enemy of a type unlocked at this depth, falling in
SpawnChallengeEnemy(type) == startFall(NewEnemy(type), CHALLENGE_FALL)

\* a spawned enemy one frame before its fall is over: a spinning top counts its
\* fall down, a bat does not
Faller(type, dt) ==
    LET e == SpawnChallengeEnemy(type)
    IN  IF HandlesFall(type) THEN [e EXCEPT !.fallTimer = CHALLENGE_FALL - dt] ELSE e

\* gate of the enemy QTE check
QTEGateIgnoringActive(p, active) == ~p.dead /\ (~p.invulnerable \/ p.dashing)

QTEGate(p, active) == ~p.dead /\ (~p.invulnerable \/ p.dashing) /\ ~active

\* the 3-frame priority window that undoes a bullet hit
InPriorityWindow(fc, bdf) == bdf # NegInfinity /\ fc - bdf <= QTE_PRIORITY_FRAMES

\* history of the last bullet hit, advanced on every frame that is not frozen
HitAfterFrame(h, bulletDmg, livesBefore) ==
    IF bulletDmg THEN [lives |-> livesBefore, since |-> 0]
    ELSE IF h.since \in 0..QTE_PRIORITY_FRAMES THEN [h EXCEPT !.since = h.since + 1]
    ELSE h

\* the gameplay scene and what GameplayScene.update can push
World ==
    [scenes |-> scenes, frameCount |-> frameCount, bulletDamageFrame |-> bulletDamageFrame,
     qteActive |-> qteActive, freezeTimer |-> freezeTimer, player |-> player,
     enemies |-> enemies, bullets |-> bullets, bossSpawnTimer |-> bossSpawnTimer,
     gameOverPushed |-> gameOverPushed, qteScene |-> qteScene, hit |-> hit,
     called |-> called, late |-> late, finished |-> finished, ev |-> ev, geo |-> geo,
     run |-> run]

SetWorld(w) ==
    /\ scenes' = w.scenes
    /\ frameCount' = w.frameCount
    /\ bulletDamageFrame' = w.bulletDamageFrame
    /\ qteActive' = w.qteActive
    /\ freezeTimer' = w.freezeTimer
    /\ player' = w.player
    /\ enemies' = w.enemies
    /\ bullets' = w.bullets
    /\ bossSpawnTimer' = w.bossSpawnTimer
    /\ gameOverPushed' = w.gameOverPushed
    /\ qteScene' = w.qteScene
    /\ hit' = w.hit
    /\ called' = w.called
    /\ late' = w.late
    /\ finished' = w.finished
    /\ ev' = w.ev
    /\ geo' = w.geo
    /\ run' = w.run

\* _triggerQTE / _triggerGeneratorQTE: mark the QTE active and push the scene
TriggerQTE(w, subject, levelDepth) ==
    [w EXCEPT !.qteActive = TRUE,
              !.scenes = Append(w.scenes, "qte"),
              !.qteScene = QTESceneEnter(NewQTEScene(subject), levelDepth),
              !.called = <<>>,
              !.late = FALSE,
              !.finished = NoFinished]

\* the pause key while gameplay is on top
GameplayPause ==
    /\ Top(scenes) = "gameplay"
    /\ run.transition.phase = "none"
    /\ scenes' = Append(scenes, "pause")
    /\ UNCHANGED <<gameVars, qteScene, frameTime, hit, called, late, finished, ev>>

\* frameCount++ comes before the hitstop check
CountFrame(fc) == fc + 1

\* a frame on which hitstop.update(dt) reports frozen
GameplayFrozenFrame(dt, limit) ==
    /\ Top(scenes) = "gameplay"
    /\ run.transition.phase = "none"
    /\ frameCount < limit
    /\ HitstopFrozen(freezeTimer)
    /\ frameCount' = CountFrame(frameCount)
    /\ freezeTimer' = HitstopUpdate(freezeTimer, dt)
    /\ ev' = [NoEv EXCEPT !.frozen = TRUE, !.counted = frameCount' - frameCount,
                 !.stale = \E i \in Indices(enemies) : enemies[i].justLanded]
    /\ UNCHANGED <<scenes, level, bulletDamageFrame, qteActive, player, enemies, bullets,
                   generators, bossHP, bossSpawnTimer, gameOverPushed, run, qteScene, hit,
                   frameTime, called, late, finished, geo, blast, pool, letter, trail,
                   machine, unit>>

\* the frame goes on to the later checks only when the QTE check found no enemy
FrameAlwaysContinues(qteEnemy) == TRUE

ContinuesFrame(qteEnemy) == qteEnemy = 0

\* the level timer counts down unless a QTE is on or the level has no timer
TimerRuns(w) == w.run.on /\ ~w.qteActive /\ w.run.timerActive

\* the level timer reaches 0 on this frame
TimeRunsOut(w, dt) == TimerRuns(w) /\ w.run.levelTimer - dt <= 0

\* the frame on which the level timer runs out: the player is dead, the
\* game-over scene is pushed and the frame returns
FrameTimeUp(w, dt) ==
    LET w1 == [w EXCEPT !.frameCount = CountFrame(w.frameCount),
                        !.run.levelTimer = 0,
                        !.ev = [NoEv EXCEPT
                                  !.counted = CountFrame(w.frameCount) - w.frameCount,
                                  !.timeUp = TRUE]]
    IN  IF w.gameOverPushed THEN w1
        ELSE [w1 EXCEPT !.player.dead = TRUE,
                        !.gameOverPushed = TRUE,
                        !.scenes = Append(w.scenes, "gameover"),
                        !.run.overs = w.run.overs + 1]

\* the level timer of a frame on which it does not run out
FrameTimer(w, in) ==
    IF TimerRuns(w) THEN [w EXCEPT !.run.levelTimer = w.run.levelTimer - in.dt] ELSE w

\* a frame that is not frozen, step by step; in carries the frame's inputs.
\* frameCount++, then player, bullet pool and enemies are updated
FrameEntities(w, in) ==
    [w EXCEPT !.frameCount = CountFrame(w.frameCount),
              !.player = PlayerUpdate(w.player, in.dt, in.dash),
              !.geo = GeoFrame(w.geo, w.player, w.enemies, in.dt, in.dash, in.walk,
                               in.timerOut, in.drift),
              !.bullets = w.bullets - in.expire + in.fire,
              !.enemies = [i \in Indices(w.enemies) |->
                             EnemyUpdate(w.enemies[i], in.dt, i \in in.timerOut)],
              !.ev = [NoEv EXCEPT
                        !.counted = CountFrame(w.frameCount) - w.frameCount,
                        !.stale = \E i \in Indices(w.enemies) : w.enemies[i].justLanded,
                        !.gated = w.qteActive,
                        !.touched = w.qteActive /\ (in.overlaps # {} \/ in.gen # 0)]]

\* landing effects and landing damage
FrameLanding(f, in) ==
    IF /\ \E i \in Indices(f.enemies) : f.enemies[i].justLanded /\ i \in in.near
       /\ DamageApplies(f.player)
    THEN [f EXCEPT !.player = Damage(f.player),
                   !.freezeTimer = HitstopFreeze(f.freezeTimer, 5),
                   !.ev.landDmg = TRUE]
    ELSE f

\* the enemy QTE check, with the retroactive undo of a recent bullet hit
FrameQTECheck(f, in) ==
    LET qteEnemy == IF QTEGate(f.player, f.qteActive)
                    THEN checkQTECollision(f.enemies, in.overlaps) ELSE 0
        undo == InPriorityWindow(f.frameCount, f.bulletDamageFrame)
    IN  IF qteEnemy = 0 THEN f
        ELSE [f EXCEPT !.player = IF undo THEN undoDamage(f.player) ELSE f.player,
                       !.ev.trigger = [kind |-> "enemy", idx |-> qteEnemy],
                       !.ev.undone = undo]

\* the enemy the QTE check of this frame has found, or 0
QTEEnemyOf(f) == IF f.ev.trigger.kind = "enemy" THEN f.ev.trigger.idx ELSE 0

\* the frame has returned after _triggerQTE
Stopped(f) == ~ContinuesFrame(QTEEnemyOf(f))

\* the frame has returned neither after _triggerQTE nor after _triggerGeneratorQTE
Rest(f) == ~Stopped(f) /\ f.ev.trigger.kind # "generator" /\ ~f.ev.exited

\* clear the landing flags
FrameClearLanded(f) ==
    IF Stopped(f) THEN f ELSE [f EXCEPT !.enemies = ClearLanded(f.enemies)]

\* generator collision (qteActive is already set when _triggerQTE has run)
FrameGenerators(f, gens, in) ==
    IF /\ ~Stopped(f)
       /\ QTEEnemyOf(f) = 0
       /\ ~f.player.dead /\ ~f.qteActive
       /\ in.gen \in 1..Len(gens)
       /\ ~gens[in.gen]
    THEN [f EXCEPT !.ev.trigger = [kind |-> "generator", idx |-> in.gen]]
    ELSE f

\* bullet-player collision
FrameBullets(f, in) ==
    LET consumed == IF Rest(f) /\ ~f.player.dead /\ ~f.player.invulnerable
                    THEN in.hits ELSE 0
        bulletDmg == consumed > 0
    IN  [f EXCEPT !.player = IF bulletDmg THEN Damage(f.player) ELSE f.player,
                  !.freezeTimer = IF bulletDmg THEN HitstopFreeze(f.freezeTimer, 5)
                                  ELSE f.freezeTimer,
                  !.bullets = f.bullets - consumed,
                  !.bulletDamageFrame = IF bulletDmg THEN f.frameCount
                                        ELSE f.bulletDamageFrame,
                  !.hit = HitAfterFrame(f.hit, bulletDmg, f.player.lives),
                  !.ev.consumed = consumed,
                  !.ev.bulletDmg = bulletDmg,
                  !.ev.hitsOffered = IF Stopped(f) THEN in.hits ELSE 0,
                  !.ev.missed = IF Rest(f) THEN in.hits - consumed ELSE 0]

\* bat lunge
FrameLunge(f, in) ==
    LET lungers == {i \in Indices(f.enemies) :
                      /\ f.enemies[i].active /\ isLunging(f.enemies[i])
                      /\ ~f.enemies[i].falling /\ i \in in.near}
        lungeDmg == Rest(f) /\ ~f.player.dead /\ ~f.player.invulnerable /\ lungers # {}
    IN  [f EXCEPT !.player = IF lungeDmg THEN Damage(f.player) ELSE f.player,
                  !.freezeTimer = IF lungeDmg THEN HitstopFreeze(f.freezeTimer, 5)
                                  ELSE f.freezeTimer,
                  !.ev.lungeDmg = lungeDmg,
                  !.ev.lungeNear = f.run.on /\ Rest(f) /\ lungers # {},
                  !.ev.lungeOffered = Stopped(f) /\ lungers # {}]

\* boss spawning
FrameBossSpawn(f, lvl, hp, in) ==
    LET t1 == f.bossSpawnTimer + in.dt
    IN  IF ~(Rest(f) /\ lvl.type = "BOSS" /\ hp > 0) THEN f
        ELSE IF t1 >= getBossSpawnInterval(lvl.depth)
        THEN [f EXCEPT !.bossSpawnTimer = t1 - getBossSpawnInterval(lvl.depth),
                       !.enemies = f.enemies \o [k \in 1..Len(in.spawn) |->
                                                   SpawnChallengeEnemy(in.spawn[k])]]
        ELSE [f EXCEPT !.bossSpawnTimer = t1]

\* challenge room: enemies fall in on a timer while flee mode lasts, and flee
\* mode ends when the level timer is down to the safe time
FrameChallenge(f, lvl, in) ==
    LET t1 == f.run.challengeSpawnTimer + in.dt
        every == getChallengeSpawnInterval(lvl.depth)
        f1 == IF ~f.run.challengeFleeMode THEN f
              ELSE IF t1 >= every
              THEN [f EXCEPT !.run.challengeSpawnTimer = t1 - every,
                             !.enemies = f.enemies \o [k \in 1..Len(in.spawn) |->
                                                         SpawnChallengeEnemy(in.spawn[k])]]
              ELSE [f EXCEPT !.run.challengeSpawnTimer = t1]
    IN  IF ~(Rest(f) /\ f.run.on
             /\ (f.run.challengeFleeMode \/ lvl.type = "CHALLENGE")) THEN f
        ELSE IF /\ f1.run.challengeFleeMode
                /\ f1.run.levelTimer <= TicksPerSecond * getChallengeSafeTime(lvl.depth)
        THEN [f1 EXCEPT !.run.challengeFleeMode = FALSE]
        ELSE f1

\* the challenge types whose exit does not open when every enemy is dead
OwnCompletion == {"FIND_THE_KEY", "BOSS", "POWER_UP"}

\* challenge completion: the exit hole opens when every enemy is dead
FrameCompletion(f, lvl) ==
    IF /\ Rest(f) /\ f.run.on /\ ~f.run.challengeComplete
       /\ lvl.type \notin OwnCompletion
       /\ \A i \in Indices(f.enemies) : ~f.enemies[i].active
    THEN [f EXCEPT !.run.challengeComplete = TRUE, !.run.exitHole = TRUE]
    ELSE f

\* exit hole collision: the flee penalty, then the transition starts and the
\* frame returns
FrameExit(f, in) ==
    IF Rest(f) /\ f.run.on /\ f.run.exitHole /\ ~f.player.dead /\ in.hole
    THEN [f EXCEPT !.player = IF f.run.challengeFleeMode THEN Damage(f.player)
                              ELSE f.player,
                   !.run.transition = [phase |-> "falling", timer |-> 0],
                   !.ev.fled = f.run.challengeFleeMode,
                   !.ev.exited = TRUE]
    ELSE f

\* game over
FrameGameOver(f) ==
    IF Rest(f) /\ f.player.dead /\ ~f.gameOverPushed
    THEN [f EXCEPT !.scenes = Append(f.scenes, "gameover"), !.gameOverPushed = TRUE,
                   !.run.overs = IF f.run.on THEN f.run.overs + 1 ELSE f.run.overs]
    ELSE f

\* the scene push of _triggerQTE / _triggerGeneratorQTE
FrameTrigger(f, lvl) ==
    IF f.ev.trigger # NoSubject THEN TriggerQTE(f, f.ev.trigger, lvl.depth) ELSE f

\* a frame that is not frozen: the world after it
ActiveFrame(w, lvl, gens, hp, in) ==
    IF TimeRunsOut(w, in.dt) THEN FrameTimeUp(w, in.dt)
    ELSE
    FrameTrigger(
      FrameGameOver(
        FrameExit(
          FrameCompletion(
            FrameBossSpawn(
              FrameChallenge(
                FrameLunge(
                  FrameBullets(
                    FrameGenerators(
                      FrameClearLanded(
                        FrameQTECheck(
                          FrameLanding(FrameEntities(FrameTimer(w, in), in), in),
                          in)),
                      gens, in),
                    in),
                  in),
                lvl, in),
              lvl, hp, in),
            lvl),
          in)),
      lvl)

GameplayActiveFrame(in) ==
    /\ Len(enemies) + Len(in.spawn) <= MaxEnemies
    /\ \E w \in {ActiveFrame(World, level, generators, bossHP, in)} : SetWorld(w)
    /\ UNCHANGED <<level, generators, bossHP, frameTime, blast, pool, letter, trail,
                   machine, unit>>

\* the inputs one frame can see: the frame time, the dash key, which behaviour
\* timers run out, bullets leaving or entering the pool, what the player touches
DashChoices == IF player.dead \/ player.dashing \/ player.dashCooldown > 0
               THEN {FALSE} ELSE BOOLEAN

Timed(es) == {i \in Indices(es) : es[i].active /\ ~(HandlesFall(es[i].type) /\ es[i].falling)}

Touchable(es) == {i \in Indices(es) : es[i].active \/ es[i].justLanded}

Hitters(es) == {i \in Indices(es) : es[i].justLanded \/ (es[i].active /\ isLunging(es[i]))}

\* the movement key held and the direction the bat flutters in
WalkChoices == IF geo.idx = 0 THEN {0} ELSE {-1, 0, 1}

DriftChoices == IF geo.idx = 0 THEN {0} ELSE {-1, 1}

SpawnChoices(dt) ==
    IF level.type = "BOSS" /\ bossHP > 0
       /\ bossSpawnTimer + dt >= getBossSpawnInterval(level.depth)
    THEN [1..getBossClumpSize(level.depth) -> TypeChoices(level.depth)]
    ELSE IF run.challengeFleeMode
            /\ run.challengeSpawnTimer + dt >= getChallengeSpawnInterval(level.depth)
    THEN [1..getChallengeClumpSize(level.depth) -> TypeChoices(level.depth)]
    ELSE {<<>>}

\* the player can stand in the exit hole on levels whose exit is followed
HoleChoices == IF run.on /\ run.floors < MaxFloors THEN BOOLEAN ELSE {FALSE}

GameplayUpdate(limit) ==
    \/ GameplayPause
    \/ GameplayFrozenFrame(frameTime, limit)
    \/ /\ Top(scenes) = "gameplay"
       /\ run.transition.phase = "none"
       /\ frameCount < limit
       /\ ~HitstopFrozen(freezeTimer)
       /\ \E dt \in {frameTime}, dash \in DashChoices, timerOut \in SUBSET Timed(enemies),
             expire \in 0..bullets, walk \in WalkChoices, drift \in DriftChoices :
            \E es1 \in {[i \in Indices(enemies) |-> EnemyUpdate(enemies[i], dt, i \in timerOut)]},
               fire \in 0..(IF \E i \in Indices(enemies) :
                                    enemies[i].active /\ Shoots(enemies[i].type)
                            THEN Max(0, MaxBullets - (bullets - expire)) ELSE 0) :
              \E overlaps \in {o \in SUBSET Touchable(es1) :
                                  GeoAgrees(GeoFrame(geo, player, enemies, dt, dash, walk,
                                                     timerOut, drift), es1, o)},
                 gen \in 0..Len(generators), spawn \in SpawnChoices(dt),
                 hole \in HoleChoices :
                \E near \in SUBSET (overlaps \cap Hitters(es1)),
                   hits \in 0..(bullets - expire + fire) :
                  GameplayActiveFrame([dt |-> dt, dash |-> dash, timerOut |-> timerOut,
                                       expire |-> expire, fire |-> fire,
                                       overlaps |-> overlaps, near |-> near, gen |-> gen,
                                       hits |-> hits, spawn |-> spawn,
                                       walk |-> walk, drift |-> drift, hole |-> hole])

\* ---------------------------------------------------------------- blast
\* Offsets from the blast centre are taken along one line, in px.
BLAST_RADIUS == 240

\* the offsets an enemy or a bullet can have from the blast centre
BlastOffsets == {-BLAST_RADIUS, 100, BLAST_RADIUS + 1}

InBlastStrict(off) == off * off < BLAST_RADIUS * BLAST_RADIUS

\* dx * dx + dy * dy <= radius * radius
InBlast(off) == off * off <= BLAST_RADIUS * BLAST_RADIUS

\* BulletPool.destroyInRadius: the offsets of the bullets that stay active
destroyInRadius(bwhere) == SelectSeq(bwhere, LAMBDA off : ~InBlast(off))

\* the enemies the knockback loop of a blast reaches, each with the side its
\* impulse points to
BlastKnock(es, where, skip, away) ==
    [i \in {j \in Indices(es) : j # skip /\ es[j].active /\ InBlast(where[j])} |->
        IF where[i] = 0 THEN away ELSE Sgn(where[i])]

\* ------------------------------------------------------------ callbacks
Game == [player |-> player, enemies |-> enemies, bullets |-> bullets,
         freezeTimer |-> freezeTimer, generators |-> generators, bossHP |-> bossHP,
         qteActive |-> qteActive, geo |-> geo, run |-> run, left |-> <<>>,
         knocked |-> <<>>]

\* the boss loses its HP whatever is left of it
BossHPUnguarded(boss, hp) == IF boss THEN hp - 1 ELSE hp

\* if (challengeType === BOSS && this.bossHP > 0) this.bossHP--
BossHPAfterWin(boss, hp) == IF boss /\ hp > 0 THEN hp - 1 ELSE hp

\* the level after a won enemy QTE: the clock's bonus time, and the exit hole
\* that opens when the boss's last HP goes
RunAfterWin(r, type, boss, hp) ==
    IF ~r.on THEN r
    ELSE [r EXCEPT !.wins = r.wins + 1,
                   !.levelTimer = IF type = "clock" THEN r.levelTimer + 5 * TicksPerSecond
                                  ELSE r.levelTimer,
                   !.challengeComplete = (boss /\ hp > 0 /\ hp - 1 <= 0)
                                         \/ r.challengeComplete,
                   !.exitHole = (boss /\ hp > 0 /\ BossHPAfterWin(boss, hp) <= 0)
                                \/ r.exitHole]

\* onSuccess of _triggerQTE: kill the enemy, blast, heart bonus, boss HP
EnemyQTESuccess(g, idx, where, bwhere, away) ==
    LET e == g.enemies[idx]
        knock == BlastKnock(g.enemies, where, idx, away)
        es == [i \in Indices(g.enemies) |->
                 IF i = idx THEN takeDamage(g.enemies[i])
                 ELSE IF i \in DOMAIN knock THEN applyKnockback(g.enemies[i])
                 ELSE g.enemies[i]]
    IN  [g EXCEPT !.freezeTimer = HitstopFreeze(g.freezeTimer, 8),
                  !.enemies = es,
                  !.bullets = Len(destroyInRadius(bwhere)),
                  !.left = destroyInRadius(bwhere),
                  !.knocked = knock,
                  !.player = IF e.type = "heart" THEN addLife(g.player) ELSE g.player,
                  !.bossHP = BossHPAfterWin(level.type = "BOSS", g.bossHP),
                  !.run = RunAfterWin(g.run, e.type, level.type = "BOSS", g.bossHP),
                  !.geo = GeoBlast(g.geo, DOMAIN knock, away),
                  !.qteActive = FALSE]

\* onFail of _triggerQTE: the player is damaged, the enemy retreats
EnemyQTEFail(g, idx, bwhere, away) ==
    [g EXCEPT !.freezeTimer = HitstopFreeze(g.freezeTimer, 6),
              !.player = Damage(g.player),
              !.enemies = [g.enemies EXCEPT ![idx] = applyKnockback(g.enemies[idx])],
              !.left = bwhere,
              !.geo = GeoFail(g.geo, idx, away),
              !.qteActive = FALSE]

\* onSuccess of _triggerGeneratorQTE
GeneratorQTESuccess(g, idx, where, bwhere, away) ==
    LET knock == BlastKnock(g.enemies, where, 0, away)
    IN  [g EXCEPT !.generators = [g.generators EXCEPT ![idx] = TRUE],
                  !.freezeTimer = HitstopFreeze(g.freezeTimer, 6),
                  !.bullets = Len(destroyInRadius(bwhere)),
                  !.left = destroyInRadius(bwhere),
                  !.knocked = knock,
                  !.enemies = [i \in Indices(g.enemies) |->
                                 IF i \in DOMAIN knock
                                 THEN applyKnockback(g.enemies[i]) ELSE g.enemies[i]],
                  !.run = IF g.run.on /\ \A k \in DOMAIN g.generators :
                                             k = idx \/ g.generators[k]
                          THEN [g.run EXCEPT !.challengeComplete = TRUE,
                                             !.exitHole = TRUE]
                          ELSE g.run,
                  !.geo = GeoBlast(g.geo, DOMAIN knock, away),
                  !.qteActive = FALSE]

\* onFail of _triggerGeneratorQTE
GeneratorQTEFail(g, bwhere) ==
    [g EXCEPT !.player = Damage(g.player), !.left = bwhere, !.qteActive = FALSE]

\* which callback QTEScene.update invokes for a completed QTE
CallbackSwapped(q) == IF q.result = "success" THEN "onFail" ELSE "onSuccess"

CallbackFor(q) == IF q.result = "success" THEN "onSuccess" ELSE "onFail"

Invoke(cb, subject, g, where, bwhere, away) ==
    CASE subject.kind = "enemy" /\ cb = "onSuccess" ->
             EnemyQTESuccess(g, subject.idx, where, bwhere, away)
      [] subject.kind = "enemy" /\ cb = "onFail" ->
             EnemyQTEFail(g, subject.idx, bwhere, away)
      [] subject.kind = "generator" /\ cb = "onSuccess" ->
             GeneratorQTESuccess(g, subject.idx, where, bwhere, away)
      [] subject.kind = "generator" /\ cb = "onFail" -> GeneratorQTEFail(g, bwhere)
      [] OTHER -> g

\* the record of a callback's blast
BlastOf(cb, subject, g, g1, where, bwhere) ==
    [on |-> TRUE, cb |-> cb, subject |-> subject, before |-> g.enemies,
     after |-> g1.enemies, where |-> where, bwhere |-> bwhere, left |-> g1.left,
     knocked |-> g1.knocked]

SetGame(g) ==
    /\ player' = g.player
    /\ enemies' = g.enemies
    /\ bullets' = g.bullets
    /\ freezeTimer' = g.freezeTimer
    /\ generators' = g.generators
    /\ bossHP' = g.bossHP
    /\ qteActive' = g.qteActive
    /\ geo' = g.geo
    /\ run' = g.run

\* ------------------------------------------------------ QTEScene.update
\* QTEScene.exit(): qte.cleanup(), which changes nothing in any mini-game
QTESceneExit(sc) == sc

\* Game.popScene() of the QTE scene: exit() runs and the scene object is dropped
NoScene == NewQTEScene(NoSubject)

QTEScenePause ==
    /\ Top(scenes) = "qte"
    /\ scenes' = Append(scenes, "pause")
    /\ qteScene' = QTESceneExit(qteScene)
    /\ UNCHANGED <<gameVars, frameTime, hit, called, late, finished, ev>>

QTESceneSplash(dt) ==
    /\ Top(scenes) = "qte"
    /\ qteScene.qte # NoQTE
    /\ ~qteScene.splashDone
    /\ qteScene' = [qteScene EXCEPT !.splashTimer = qteScene.splashTimer + dt,
                       !.splashDone = qteScene.splashTimer + dt >= SPLASH_DURATION]
    /\ UNCHANGED <<scenes, gameVars, frameTime, hit, called, late, finished, ev>>

\* the side a knocked-back bat is thrown to when the code draws it at random or
\* the blast centre is not the player
AwayChoices == IF geo.idx = 0 THEN {1} ELSE {-1, 1}

\* where the blast is not recorded one offset inside the radius and one outside
\* stand for the rest
BlastChoices == IF blast.on THEN BlastOffsets ELSE {100, BLAST_RADIUS + 1}

QTESceneRun(dt, sub) ==
    /\ Top(scenes) = "qte"
    /\ qteScene.qte # NoQTE
    /\ qteScene.splashDone
    /\ UNCHANGED <<level, frameCount, bulletDamageFrame, bossSpawnTimer, gameOverPushed,
                   frameTime, hit, ev, pool, letter, trail, machine, unit>>
    /\ \E q0 \in {QTEUpdate(qteScene.qte, dt)} :
       \E q1 \in {SubclassStep(q0, sub)} :
         /\ late' = (late \/ (q0.completed /\ sub # "none"))
         /\ IF q1.completed
            THEN \E where \in [Indices(enemies) -> BlastChoices],
                    bwhere \in [1..bullets -> BlastChoices], away \in AwayChoices :
                   \E g1 \in {Invoke(CallbackFor(q1), qteScene.enemy, Game, where,
                                     bwhere, away)} :
                   /\ SetGame(g1)
                   /\ blast' = IF blast.on
                               THEN BlastOf(CallbackFor(q1), qteScene.enemy, Game, g1,
                                            where, bwhere)
                               ELSE blast
                   /\ called' = Append(called, CallbackFor(q1))
                   /\ finished' = [expired |-> q1.elapsed >= q1.timeLimit,
                                   completed |-> q1.completed, result |-> q1.result]
                   /\ scenes' = Pop(scenes)
                   /\ qteScene' = NoScene
            ELSE /\ qteScene' = [qteScene EXCEPT !.qte = q1]
                 /\ UNCHANGED <<player, enemies, bullets, freezeTimer, generators, bossHP,
                                qteActive, called, finished, scenes, geo, blast, run>>

\* the qteType values QTEScene._createQTE has a mini-game class for
QTEClasses ==
    {"bat", "gopher", "spinningTop", "letter", "cowboy", "controller", "heart", "clock",
     "tap"}

\* this.enemy?.qteType: an enemy's type, 'tap' for a generator's proxy
qteTypeOf(subject) ==
    CASE subject.kind = "enemy" -> enemies[subject.idx].type
      [] subject.kind = "generator" -> "tap"
      [] OTHER -> "none"

\* QTEScene._createQTE: the class built, the base QTE when no branch matches
createQTE(type) == IF type \in QTEClasses THEN type ELSE "QTE"

AnyClassOutcomes(class) == SubOutcomes

\* what a mini-game's own update or onInput can do to the result: the base class
\* adds nothing to the countdown and its onInput is empty
ClassOutcomes(class) == IF class = "QTE" THEN {"none"} ELSE SubOutcomes

QTESceneUpdate ==
    \/ QTEScenePause
    \/ QTESceneSplash(frameTime)
    \/ \E sub \in ClassOutcomes(createQTE(qteTypeOf(qteScene.enemy))) :
         QTESceneRun(frameTime, sub)

\* QTEScene.onInput: forwarded to the mini-game once the splash is over
QTESceneInput ==
    \E class \in {createQTE(qteTypeOf(qteScene.enemy))} :
    \E sub \in IF class = "QTE" THEN {"none"} ELSE ClassOutcomes(class) \ {"none"} :
        /\ Top(scenes) = "qte"
        /\ qteScene.qte # NoQTE
        /\ qteScene.splashDone
        /\ qteScene' = [qteScene EXCEPT !.qte = SubclassStep(qteScene.qte, sub)]
        /\ late' = (late \/ qteScene.qte.completed)
        /\ UNCHANGED <<scenes, gameVars, frameTime, hit, called, finished, ev>>

\* ---------------------------------------------------------- PauseScene
\* Game.popScene(): the top scene is dropped, the one below becomes current and
\* its enter() runs
PopScene(st, sc, levelDepth) ==
    [scenes |-> Pop(st),
     qteScene |-> IF Top(st) = "qte" THEN NoScene
                  ELSE IF Top(Pop(st)) = "qte" THEN QTESceneEnter(sc, levelDepth)
                  ELSE sc]

\* "Resume", or the pause key
PauseResume ==
    /\ Top(scenes) = "pause"
    /\ \E g \in {PopScene(scenes, qteScene, level.depth)} :
         scenes' = g.scenes /\ qteScene' = g.qteScene
    /\ UNCHANGED <<gameVars, frameTime, hit, called, late, finished, ev>>

\* "Main Menu": popScene() twice, whatever lies under the pause scene
PauseMainMenu ==
    /\ Top(scenes) = "pause"
    /\ \E g \in {PopScene(scenes, qteScene, level.depth)} :
       \E h \in {PopScene(g.scenes, g.qteScene, level.depth)} :
         scenes' = h.scenes /\ qteScene' = h.qteScene
    /\ UNCHANGED <<gameVars, frameTime, hit, called, late, finished, ev>>

PauseUpdate == PauseResume \/ PauseMainMenu

\* ------------------------------------------------------- specifications
\* the QTE lifecycle: one enemy or a generator, every step a QTE scene can take
\* ------------------------------------------------------ Letter and pool
AIM_LIFETIME == 10 * TicksPerSecond

\* where the cowboy stands, in px * TicksPerSecond
CowboyAt == 200 * TicksPerSecond
LETTER_BULLET_SPEED == 180
COWBOY_BULLET_SPEED == 200

\* the pool, the Letter and the history, as one frame or callback works on them
Arena == [pool |-> pool, letter |-> letter, trail |-> trail]

SetArena(w) == pool' = w.pool /\ letter' = w.letter /\ trail' = w.trail

\* history: note where the bullets that were active in before and are not in
\* w.pool were deactivated
Mark(w, before) ==
    [w EXCEPT !.trail.died =
        [id \in 1..Len(w.trail.died) |->
           IF \E i \in 1..Len(before) :
                  before[i].active /\ before[i].id = id /\ ~w.pool[i].active
           THEN [dead |-> TRUE,
                 x |-> w.pool[CHOOSE i \in 1..Len(before) :
                                 before[i].active /\ before[i].id = id].x]
           ELSE w.trail.died[id]]]

\* bullets.spawn(opts) called by an enemy
Spawned(w, opts) ==
    [w EXCEPT !.pool = PoolSpawn(w.pool, opts),
              !.trail.serial = w.trail.serial + 1,
              !.trail.died = Append(w.trail.died, Alive),
              !.trail.spawn = [slot |-> SpawnSlot(w.pool), req |-> opts]]

Options(x, vx, color, lifetime, by, w) ==
    [x |-> x, vx |-> vx, color |-> color, radius |-> BULLET_RADIUS,
     lifetime |-> lifetime, id |-> w.trail.serial + 1, by |-> by]

\* Letter.onStateEnter('firing'): spawn, keep the reference, go to waiting
LetterFire(w, dir, levelDepth) ==
    LET w1 == Spawned(w, Options(w.letter.x, dir * Scaled(LETTER_BULLET_SPEED, levelDepth),
                                 "#ff4444", AIM_LIFETIME, "letter", w))
    IN  [w1 EXCEPT !.letter.activeBullet = w1.trail.spawn.slot,
                   !.letter.state = "waiting",
                   !.letter.fired = w1.trail.serial,
                   !.letter.shots = w.letter.shots + 1]

\* Letter.update(dt, walls, player, bullets): _aiming, _waiting, _teleporting
LetterUpdate(w, timerOut, dir, levelDepth) ==
    LET l == w.letter
    IN  CASE l.state = "aiming" /\ timerOut -> LetterFire(w, dir, levelDepth)
          [] l.state = "waiting" /\ l.activeBullet # 0 /\ ~w.pool[l.activeBullet].active ->
               [w EXCEPT !.letter.x = w.pool[l.activeBullet].x,
                         !.letter.activeBullet = 0,
                         !.letter.state = "teleporting"]
          [] l.state = "teleporting" /\ timerOut -> [w EXCEPT !.letter.state = "aiming"]
          [] OTHER -> w

\* the other enemy, a cowboy standing at x: _firePredictiveBullet
CowboyUpdate(w, fires, x, dir, levelDepth) ==
    IF fires
    THEN Spawned(w, Options(x, dir * Scaled(COWBOY_BULLET_SPEED, levelDepth), "#ff4444",
                            DEFAULT_LIFETIME, "cowboy", w))
    ELSE w

\* Letter.resetToIdle without the deactivation of the bullet in flight
LetterResetKeepsBullet(w) ==
    [w EXCEPT !.letter.activeBullet = 0, !.letter.state = "aiming"]

\* Letter.resetToIdle()
LetterResetToIdle(w) ==
    LET ab == w.letter.activeBullet
        pl == IF ab # 0 /\ w.pool[ab].active
              THEN [w.pool EXCEPT ![ab].active = FALSE] ELSE w.pool
    IN  [w EXCEPT !.pool = pl, !.letter.activeBullet = 0, !.letter.state = "aiming"]

\* bullets.update, then the enemies in array order
ArenaFrame(w, dt, walled, fires, timerOut, dir, cdir, levelDepth) ==
    LET w1 == Mark([w EXCEPT !.pool = PoolUpdate(w.pool, dt, walled),
                             !.trail.ticks = w.trail.ticks + 1,
                             !.trail.update = [walled |-> walled, dt |-> dt]], w.pool)
    IN  IF w.letter.first
        THEN CowboyUpdate(LetterUpdate(w1, timerOut, dir, levelDepth), fires,
                          CowboyAt, cdir, levelDepth)
        ELSE LetterUpdate(CowboyUpdate(w1, fires, CowboyAt, cdir, levelDepth),
                          timerOut, dir, levelDepth)

\* everything the gameplay specifications work on
playVars == <<scenes, level, frameCount, bulletDamageFrame, qteActive, freezeTimer, player,
              enemies, bullets, generators, bossHP, bossSpawnTimer, gameOverPushed, run,
              qteScene, frameTime, hit, called, late, finished, ev, geo, blast, machine, unit>>

\* one gameplay frame as the pool and the Letter see it
LetterFrame ==
    /\ trail.ticks < LetterFrames
    /\ \E walled \in SUBSET ActiveSlots(pool), fires \in BOOLEAN, timerOut \in BOOLEAN,
          dir \in {-1, 1} :
         \E w \in {ArenaFrame(Arena, frameTime, walled, fires, timerOut, dir, -1,
                                level.depth)} :
           /\ w.trail.serial <= MaxShots
           /\ SetArena(w)
    /\ UNCHANGED playVars

\* a QTE callback knocks the Letter back between two frames
LetterKnockback ==
    /\ letter.state # "none"
    /\ SetArena(Mark(LetterResetToIdle(Arena), pool))
    /\ UNCHANGED playVars

\* a QTE callback destroys the bullets in its blast radius
ArenaBlast ==
    /\ \E S \in SUBSET ActiveSlots(pool) :
         /\ S # {}
         /\ SetArena(Mark([Arena EXCEPT !.pool = [i \in 1..Len(pool) |->
                                 IF i \in S THEN [pool[i] EXCEPT !.active = FALSE]
                                 ELSE pool[i]]], pool))
    /\ UNCHANGED playVars

\* a room at depth 11 with a Letter and a cowboy, either first in the array
NewLetter(first) == [NoLetter EXCEPT !.state = "aiming", !.first = first]

InitLetter ==
    /\ level = LevelAt(11)
    /\ frameTime = MAX_DT
    /\ scenes = <<"menu", "gameplay">>
    /\ frameCount = 0
    /\ bulletDamageFrame = NegInfinity
    /\ qteActive = FALSE
    /\ freezeTimer = 0
    /\ player = NewPlayer
    /\ enemies = <<NewEnemy("letter"), NewEnemy("cowboy")>>
    /\ bullets = 0
    /\ generators = <<>>
    /\ bossHP = 0
    /\ bossSpawnTimer = 0
    /\ gameOverPushed = FALSE
    /\ run = NoRun
    /\ qteScene = NewQTEScene(NoSubject)
    /\ hit = NoHit
    /\ called = <<>>
    /\ late = FALSE
    /\ finished = NoFinished
    /\ ev = NoEv
    /\ geo = NoGeo
    /\ blast = NoBlast
    /\ pool = [i \in 1..INITIAL_SIZE |-> NewBullet]
    /\ \E first \in BOOLEAN : letter = NewLetter(first)
    /\ trail = NoTrail
    /\ machine = NoMachine
    /\ unit = NoUnit

NextLetter ==
    \/ LetterFrame
    \/ LetterKnockback
    \/ ArenaBlast

SpecLetter == InitLetter /\ [][NextLetter]_vars

\* ------------------------------------------------ the enemy state machine
\* One enemy with its state, its stateTimer and the hooks its last call ran.
\* A log entry is a hook call: the hook, its argument, and this.state and
\* this.stateTimer as the hook saw them.
StateTicks == 20

RECURSIVE EnemySetState(_, _), onStateEnter(_, _)

Logged(m, hook, arg) ==
    [m EXCEPT !.log = Append(@, [hook |-> hook, arg |-> arg, state |-> m.state,
                                 stateTimer |-> m.stateTimer])]

\* Enemy.onStateExit: no subclass overrides it
onStateExit(m, state) == Logged(m, "onStateExit", state)

AssignKeepsTimer(m, newState) == [m EXCEPT !.state = newState]

\* this.state = newState; this.stateTimer = 0
Assign(m, newState) == [m EXCEPT !.state = newState, !.stateTimer = 0]

\* onStateEnter of each class: Cowboy, Controller and Letter leave 'firing' at once
onStateEnter(m, state) ==
    CASE m.type = "cowboy" /\ state = "firing" ->
           EnemySetState(Logged(m, "onStateEnter", state), "cooldown")
      [] m.type = "controller" /\ state = "firing" ->
           EnemySetState(Logged(m, "onStateEnter", state), "idle")
      [] m.type = "letter" /\ state = "firing" ->
           EnemySetState(Logged(m, "onStateEnter", state), "waiting")
      [] OTHER -> Logged(m, "onStateEnter", state)

\* Enemy.setState(newState)
EnemySetState(m, newState) ==
    IF newState = m.state THEN m
    ELSE onStateEnter(Assign(onStateExit(m, m.state), newState), newState)

\* Enemy.resetToIdle, which every class but none overrides
BaseResetToIdle(m) == EnemySetState(m, "idle")

\* resetToIdle of each class
resetToIdle(m) ==
    CASE m.type = "bat" -> EnemySetState(m, "flutter")
      [] m.type = "gopher" -> EnemySetState(m, "underground")
      [] m.type = "letter" -> EnemySetState(m, "aiming")
      [] m.type = "cowboy" -> EnemySetState(m, "running")
      [] m.type = "heart" ->
           IF m.hasPath THEN EnemySetState(m, "pathfinding")
           ELSE EnemySetState(m, "fleeing")
      [] OTHER -> EnemySetState(m, "idle")

\* Enemy.applyKnockback(fromX, fromY, force): the impulse, then resetToIdle()
EnemyApplyKnockback(m) == resetToIdle(m)

\* Heart.setPath(waypoints)
setPath(m, some) ==
    IF some THEN EnemySetState([m EXCEPT !.hasPath = TRUE], "pathfinding")
    ELSE [m EXCEPT !.hasPath = FALSE]

\* the state each class's update moves to when the current state's condition is met
Successor(type, state) ==
    CASE type = "bat" ->
           (CASE state = "flutter" -> "windup" [] state = "windup" -> "lunge"
              [] state = "lunge" -> "flutter" [] OTHER -> state)
      [] type = "gopher" ->
           (CASE state = "underground" -> "emerging" [] state = "emerging" -> "fire"
              [] state = "fire" -> "idle" [] state = "idle" -> "burrowing"
              [] state = "burrowing" -> "underground" [] OTHER -> state)
      [] type = "spinningTop" ->
           (CASE state = "idle" -> "winding" [] state = "winding" -> "firing"
              [] state = "firing" -> "toppling" [] state = "toppling" -> "idle"
              [] OTHER -> state)
      [] type = "letter" ->
           (CASE state = "aiming" -> "firing" [] state = "waiting" -> "teleporting"
              [] state = "teleporting" -> "aiming" [] OTHER -> state)
      [] type = "cowboy" ->
           (CASE state = "running" -> "telegraph" [] state = "telegraph" -> "firing"
              [] state = "cooldown" -> "running" [] OTHER -> state)
      [] type = "controller" ->
           (CASE state = "idle" -> "flash" [] state = "flash" -> "firing"
              [] OTHER -> state)
      [] type = "heart" ->
           (CASE state = "pathfinding" -> "fleeing" [] OTHER -> state)
      [] OTHER -> state

\* EnemyClass.update(dt, ...): met says the current state's condition is met
\* (its timer ran out, the lunge ended, the bullet died, the last waypoint came)
EnemyStateUpdate(m, dt, met) ==
    LET m1 == [m EXCEPT !.stateTimer = @ + dt]
        m2 == IF m.type = "heart" /\ m.state = "pathfinding" /\ met
              THEN [m1 EXCEPT !.hasPath = FALSE] ELSE m1
    IN  IF met \/ (m.type = "gopher" /\ m.state = "fire")
        THEN EnemySetState(m2, Successor(m.type, m.state))
        ELSE m2

\* new EnemyClass({...}): state 'idle', stateTimer 0, then the class's setState
NewMachine(type) ==
    [EnemySetState([NoMachine EXCEPT !.type = type],
                   CASE type = "bat" -> "flutter"
                     [] type = "gopher" -> "underground"
                     [] type = "letter" -> "aiming"
                     [] type = "cowboy" -> "running"
                     [] type = "heart" -> "fleeing"
                     [] OTHER -> "idle")
     EXCEPT !.call = "new"]

Called(m, call, dt) == [m EXCEPT !.call = call, !.dt = dt, !.log = <<>>]

stateVars == <<scenes, level, frameCount, bulletDamageFrame, qteActive, freezeTimer, player,
               enemies, bullets, generators, bossHP, bossSpawnTimer, gameOverPushed, run,
               qteScene, frameTime, hit, called, late, finished, ev, geo, blast, pool,
               letter, trail, unit>>

\* enemy.update(dt, ...) of one gameplay frame
MachineUpdate ==
    /\ machine.stateTimer + frameTime <= StateTicks
    /\ \E met \in BOOLEAN :
         machine' = EnemyStateUpdate(Called(machine, "update", frameTime), frameTime, met)
    /\ UNCHANGED stateVars

\* a QTE callback knocks the enemy back
MachineKnockback ==
    /\ machine' = EnemyApplyKnockback(Called(machine, "applyKnockback", 0))
    /\ UNCHANGED stateVars

\* the gameplay scene hands a Heart a path, or none
MachineSetPath ==
    /\ machine.type = "heart"
    /\ \E some \in BOOLEAN : machine' = setPath(Called(machine, "setPath", 0), some)
    /\ UNCHANGED stateVars

InitStates ==
    /\ level = LevelAt(11)
    /\ frameTime \in DtSet
    /\ scenes = <<"menu", "gameplay">>
    /\ frameCount = 0
    /\ bulletDamageFrame = NegInfinity
    /\ qteActive = FALSE
    /\ freezeTimer = 0
    /\ player = NewPlayer
    /\ enemies = <<>>
    /\ bullets = 0
    /\ generators = <<>>
    /\ bossHP = 0
    /\ bossSpawnTimer = 0
    /\ gameOverPushed = FALSE
    /\ run = NoRun
    /\ qteScene = NewQTEScene(NoSubject)
    /\ hit = NoHit
    /\ called = <<>>
    /\ late = FALSE
    /\ finished = NoFinished
    /\ ev = NoEv
    /\ geo = NoGeo
    /\ blast = NoBlast
    /\ pool = <<>>
    /\ letter = NoLetter
    /\ trail = NoTrail
    /\ \E type \in EnemyTypes : machine = NewMachine(type)
    /\ unit = NoUnit

NextStates ==
    \/ MachineUpdate
    \/ MachineKnockback
    \/ MachineSetPath

SpecStates == InitStates /\ [][NextStates]_vars

\* ------------------------------------------------------ the pool near its cap
\* The pool some frames into a busy room: the bullets of earlier bursts of
\* eight, ten ticks apart, then the calls of a Gopher and a Clock and the
\* pool's updates.  trail.serial counts the spawns since, trail.ticks the updates.
GOPHER_BULLET_SPEED == 120
GOPHER_BULLET_COUNT == 8
CLOCK_BULLET_LIFETIME == (25 * TicksPerSecond) \div 10

\* Clock: BULLET_LIFETIME * Math.min(this.difficulty, 1.5)
ClockLifetime(levelDepth) ==
    LET full == Scaled(CLOCK_BULLET_LIFETIME, levelDepth)
        most == (CLOCK_BULLET_LIFETIME * 3) \div 2
    IN  IF full < most THEN full ELSE most

NearCap == SOFT_CAP - 1
NearFull == INITIAL_SIZE - 2

Profiles == {"fresh", "reused", "trail"}

\* the age of the bullet in slot i: "fresh" has the oldest burst in the first
\* slots, "reused" in slots taken again later, "trail" has a Clock's bullet one
\* long frame from its end in slot 1
Age(i, fill, profile, levelDepth) ==
    CASE profile = "reused" ->
           (((i + SOFT_CAP \div 2) % fill) \div GOPHER_BULLET_COUNT + 1) * MAX_DT
      [] profile = "trail" /\ i = 1 -> ClockLifetime(levelDepth) - MAX_DT
      [] OTHER -> ((fill - i) \div GOPHER_BULLET_COUNT + 1) * MAX_DT

Prefill(fill, profile, levelDepth) ==
    [i \in 1..INITIAL_SIZE |->
       IF i > fill THEN NewBullet
       ELSE [NewBullet EXCEPT
               !.active = TRUE,
               !.by = "earlier",
               !.lifetime = Age(i, fill, profile, levelDepth),
               !.maxLifetime = IF profile = "trail" /\ i = 1
                               THEN ClockLifetime(levelDepth) ELSE DEFAULT_LIFETIME]]

\* Gopher._fire and Clock.update: what each asks of bullets.spawn
Request(by, w, levelDepth) ==
    IF by = "gopher"
    THEN Options(0, Scaled(GOPHER_BULLET_SPEED, levelDepth), "#8b6914", DEFAULT_LIFETIME,
                 by, w)
    ELSE Options(0, 0, "#ff4444", ClockLifetime(levelDepth), by, w)

\* bullets.spawn(opts), called by a Gopher or a Clock
PoolSpawnCall ==
    /\ trail.serial < MaxShots
    /\ \E by \in {"gopher", "clock"} :
         SetArena(Spawned(Arena, Request(by, Arena, level.depth)))
    /\ UNCHANGED playVars

\* the walls a bullet can be in on this update: none, or the first active one
WallChoices(pl) ==
    {{}} \cup (IF ActiveSlots(pl) = {} THEN {} ELSE {{LowestOf(ActiveSlots(pl))}})

\* bullets.update(dt, walls) of one gameplay frame
PoolUpdateCall ==
    /\ trail.ticks < PoolFrames
    /\ \E walled \in WallChoices(pool) :
         SetArena([Arena EXCEPT !.pool = PoolUpdate(pool, frameTime, walled),
                                !.trail.ticks = trail.ticks + 1,
                                !.trail.update = [walled |-> walled, dt |-> frameTime]])
    /\ UNCHANGED playVars

InitPool ==
    /\ level = LevelAt(11)
    /\ frameTime \in DtSet
    /\ scenes = <<"menu", "gameplay">>
    /\ frameCount = 0
    /\ bulletDamageFrame = NegInfinity
    /\ qteActive = FALSE
    /\ freezeTimer = 0
    /\ player = NewPlayer
    /\ enemies = <<NewEnemy("gopher"), NewEnemy("clock")>>
    /\ bullets = 0
    /\ generators = <<>>
    /\ bossHP = 0
    /\ bossSpawnTimer = 0
    /\ gameOverPushed = FALSE
    /\ run = NoRun
    /\ qteScene = NewQTEScene(NoSubject)
    /\ hit = NoHit
    /\ called = <<>>
    /\ late = FALSE
    /\ finished = NoFinished
    /\ ev = NoEv
    /\ geo = NoGeo
    /\ blast = NoBlast
    /\ \E fill \in {NearCap, NearFull}, profile \in Profiles :
         pool = EnforceSoftCap(Prefill(fill, profile, level.depth))
    /\ letter = NoLetter
    /\ trail = NoTrail
    /\ machine = NoMachine
    /\ unit = NoUnit

NextPool ==
    \/ PoolSpawnCall
    \/ PoolUpdateCall

SpecPool == InitPool /\ [][NextPool]_vars

\* ------------------------------------------------- unit-level specifications
\* Each follows one object in unit and leaves the game where it stands.
restVars == <<scenes, level, frameCount, bulletDamageFrame, qteActive, freezeTimer, player,
              enemies, bullets, generators, bossHP, bossSpawnTimer, gameOverPushed, run,
              qteScene, frameTime, hit, called, late, finished, ev, geo, blast, pool,
              letter, trail, machine>>

\* the game at the start of a level at depth 11, nothing else followed
Standing ==
    /\ level = LevelAt(11)
    /\ frameTime \in DtSet
    /\ scenes = <<"menu", "gameplay">>
    /\ frameCount = 0
    /\ bulletDamageFrame = NegInfinity
    /\ qteActive = FALSE
    /\ freezeTimer = 0
    /\ player = NewPlayer
    /\ enemies = <<>>
    /\ bullets = 0
    /\ generators = <<>>
    /\ bossHP = 0
    /\ bossSpawnTimer = 0
    /\ gameOverPushed = FALSE
    /\ run = NoRun
    /\ qteScene = NewQTEScene(NoSubject)
    /\ hit = NoHit
    /\ called = <<>>
    /\ late = FALSE
    /\ finished = NoFinished
    /\ ev = NoEv
    /\ geo = NoGeo
    /\ blast = NoBlast
    /\ pool = <<>>
    /\ letter = NoLetter
    /\ trail = NoTrail
    /\ machine = NoMachine

\* ---------------------------------------------------------- wall collision
\* Lengths in fifths of a pixel, so that the push of a 12 px circle off a wall's
\* corner is a whole number where the corner is 3-4-5 away.
WallUnit == 5
WALL_THICKNESS == 16
PLAYER_WALL_RADIUS == 12
HALLWAY_WIDTH == 96
RoomSize == 160
DoorStart == 32
DoorEnd == DoorStart + HALLWAY_WIDTH

Rect(x, y, w, h) ==
    [x |-> x * WallUnit, y |-> y * WallUnit, w |-> w * WallUnit, h |-> h * WallUnit]

\* Room.getWalls(): top, bottom, left, right
RoomWalls ==
    <<Rect(0, 0, RoomSize, WALL_THICKNESS),
      Rect(0, RoomSize - WALL_THICKNESS, RoomSize, WALL_THICKNESS),
      Rect(0, 0, WALL_THICKNESS, RoomSize),
      Rect(RoomSize - WALL_THICKNESS, 0, WALL_THICKNESS, RoomSize)>>

\* Level.getWalls(): the top wall split around an opening
DoorWalls ==
    <<Rect(0, 0, DoorStart, WALL_THICKNESS),
      Rect(DoorEnd, 0, RoomSize - DoorEnd, WALL_THICKNESS)>> \o Tail(RoomWalls)

\* _resolveAABB, the overlap test of one wall
OverlapsAABB(e, wall) ==
    LET ex == e.x - e.width \div 2
        ey == e.y - e.height \div 2
    IN  ~(\/ ex >= wall.x + wall.w \/ ex + e.width <= wall.x
          \/ ey >= wall.y + wall.h \/ ey + e.height <= wall.y)

ResolveBothAxes(e, wall) ==
    IF ~OverlapsAABB(e, wall) THEN e
    ELSE [e EXCEPT !.x = wall.x + wall.w + e.width \div 2,
                   !.y = wall.y + wall.h + e.height \div 2]

\* _resolveAABB, the body of its loop for one wall
ResolveAABBWall(e, wall) ==
    IF ~OverlapsAABB(e, wall) THEN e
    ELSE LET ex == e.x - e.width \div 2
             ey == e.y - e.height \div 2
             overlapRight == (ex + e.width) - wall.x
             overlapLeft == (wall.x + wall.w) - ex
             overlapDown == (ey + e.height) - wall.y
             overlapUp == (wall.y + wall.h) - ey
             minXOverlap == IF overlapRight < overlapLeft THEN -overlapRight
                            ELSE overlapLeft
             minYOverlap == IF overlapDown < overlapUp THEN -overlapDown ELSE overlapUp
         IN  IF Abs(minXOverlap) < Abs(minYOverlap)
             THEN [e EXCEPT !.x = @ + minXOverlap]
             ELSE [e EXCEPT !.y = @ + minYOverlap]

\* Math.sqrt of a distance below r, rounded down
Root(distSq, r) == CHOOSE d \in 0..r : d * d <= distSq /\ distSq < (d + 1) * (d + 1)

\* checkCircleVsAABB(cx, cy, r, rect); exact says the push is a whole number
checkCircleVsAABB(cx, cy, r, rect) ==
    LET closestX == Max(rect.x, Min(cx, rect.x + rect.w))
        closestY == Max(rect.y, Min(cy, rect.y + rect.h))
        dx == cx - closestX
        dy == cy - closestY
        distSq == dx * dx + dy * dy
    IN  IF distSq > 0
        THEN IF distSq >= r * r
             THEN [overlaps |-> FALSE, pushX |-> 0, pushY |-> 0, exact |-> TRUE]
             ELSE LET dist == Root(distSq, r)
                      overlap == r - dist
                  IN  [overlaps |-> TRUE,
                       pushX |-> Sgn(dx) * ((Abs(dx) * overlap) \div dist),
                       pushY |-> Sgn(dy) * ((Abs(dy) * overlap) \div dist),
                       exact |-> /\ dist * dist = distSq
                                 /\ (Abs(dx) * overlap) % dist = 0
                                 /\ (Abs(dy) * overlap) % dist = 0]
        ELSE LET pushLeft == (cx + r) - rect.x
                 pushRight == (rect.x + rect.w) - (cx - r)
                 pushUp == (cy + r) - rect.y
                 pushDown == (rect.y + rect.h) - (cy - r)
                 minX == IF pushLeft < pushRight THEN -pushLeft ELSE pushRight
                 minY == IF pushUp < pushDown THEN -pushUp ELSE pushDown
             IN  IF Abs(minX) < Abs(minY)
                 THEN [overlaps |-> TRUE, pushX |-> minX, pushY |-> 0, exact |-> TRUE]
                 ELSE [overlaps |-> TRUE, pushX |-> 0, pushY |-> minY, exact |-> TRUE]

\* _resolveCircle, the body of its loop for one wall
ResolveCircleWall(e, wall) ==
    LET result == checkCircleVsAABB(e.x, e.y, e.radius, wall)
    IN  IF result.overlaps
        THEN [e EXCEPT !.x = @ + result.pushX, !.y = @ + result.pushY,
                       !.exact = @ /\ result.exact]
        ELSE e

\* the entity's shape overlaps the wall
OverlapsWall(e, wall) ==
    IF e.useCircle THEN checkCircleVsAABB(e.x, e.y, e.radius, wall).overlaps
    ELSE OverlapsAABB(e, wall)

\* resolveWallCollision(entity, walls, options): the entity after each wall
RECURSIVE ResolvePath(_, _)
ResolvePath(e, walls) ==
    IF walls = <<>> THEN <<>>
    ELSE LET e1 == IF e.useCircle THEN ResolveCircleWall(e, Head(walls))
                   ELSE ResolveAABBWall(e, Head(walls))
         IN  <<e1>> \o ResolvePath(e1, Tail(walls))

resolveWallCollision(e, walls) ==
    IF walls = <<>> THEN e ELSE ResolvePath(e, walls)[Len(walls)]

WallMoves == 2
Deltas == {-8, -4, -3, 0, 3, 4, 8}
Starts == {<<44, 48>>, <<36, 36>>, <<39, 28>>, <<44, 30>>}

\* an Entity (32 x 32) or a Player with its wall circle, at (x, y) px
Body(x, y, useCircle) ==
    [x |-> x * WallUnit, y |-> y * WallUnit, width |-> ENTITY_SIZE * WallUnit,
     height |-> ENTITY_SIZE * WallUnit, useCircle |-> useCircle,
     radius |-> PLAYER_WALL_RADIUS * WallUnit, exact |-> TRUE]

Clear(e, walls) == \A k \in 1..Len(walls) : ~OverlapsWall(e, walls[k])

\* an entity clear of the walls of its room
InitWalls ==
    /\ Standing
    /\ \E at \in Starts, useCircle \in BOOLEAN, walls \in {RoomWalls, DoorWalls} :
         /\ Clear(Body(at[1], at[2], useCircle), walls)
         /\ unit = [kind |-> "walls", e |-> Body(at[1], at[2], useCircle), walls |-> walls,
                    from |-> Body(at[1], at[2], useCircle), path |-> <<>>, moves |-> 0]

\* one update of the entity: it moves, then resolveWallCollision(this, walls)
WallsStep ==
    /\ unit.kind = "walls"
    /\ unit.moves < WallMoves
    /\ \E dx \in Deltas, dy \in Deltas :
         \E moved \in {[unit.e EXCEPT !.x = @ + dx * WallUnit, !.y = @ + dy * WallUnit]} :
           \E path \in {ResolvePath(moved, unit.walls)} :
             /\ path[Len(path)].exact
             /\ unit' = [unit EXCEPT !.e = path[Len(path)], !.from = moved,
                                     !.path = path, !.moves = @ + 1]
    /\ UNCHANGED restVars

NextWalls == WallsStep

SpecWalls == InitWalls /\ [][NextWalls]_vars

\* ------------------------------------------------------- difficulty tuning
\* The tuning a level or a QTE is built with, for any levelDepth handed in.
LowDepth == 6
MaxDepth == 40
Depths == (0 - LowDepth)..MaxDepth

getGeneratorTapTarget(levelDepth) == Min(5 + ((levelDepth - 1) \div 5) * 2, 15)

getHeartCount(levelDepth) == Min(3 + ((levelDepth - 1) \div 5), 5)

getGopherWhacks(levelDepth) == RoundLerp(3, 6, levelDepth, 1, 20)

Tuning(levelDepth) ==
    [levelTime |-> getLevelTimeLimit(levelDepth),
     qteTime |-> getQTETimeLimit(levelDepth),
     tapTarget |-> getGeneratorTapTarget(levelDepth),
     heartCount |-> getHeartCount(levelDepth),
     gopherWhacks |-> getGopherWhacks(levelDepth),
     challengeTime |-> getChallengeTimeLimit(levelDepth),
     bossClump |-> getBossClumpSize(levelDepth)]

\* a game at depth 1
InitDifficulty ==
    /\ Standing
    /\ unit = [kind |-> "difficulty", depth |-> 1, tuning |-> Tuning(1),
               lastDepth |-> 1, last |-> Tuning(1)]

\* a level or a QTE is built for the depth handed in
TuneLevel ==
    /\ unit.kind = "difficulty"
    /\ \E levelDepth \in Depths :
         unit' = [unit EXCEPT !.depth = levelDepth, !.tuning = Tuning(levelDepth),
                              !.lastDepth = unit.depth, !.last = unit.tuning]
    /\ UNCHANGED restVars

NextDifficulty == TuneLevel

SpecDifficulty == InitDifficulty /\ [][NextDifficulty]_vars

\* ------------------------------------------------------------ CowboyQTE
COWBOY_TIME_LIMIT == 3 * TicksPerSecond
DRAW_DELAY_MIN == TicksPerSecond
DRAW_DELAY_MAX == (5 * TicksPerSecond) \div 2
REACT_WINDOW == (6 * TicksPerSecond) \div 10

\* DRAW_DELAY_MIN + Math.random() * (DRAW_DELAY_MAX - DRAW_DELAY_MIN): the least
\* value, one in the middle and one just under the greatest
DrawDelays ==
    {DRAW_DELAY_MIN, (DRAW_DELAY_MIN + DRAW_DELAY_MAX) \div 2, DRAW_DELAY_MAX - 5}

\* new CowboyQTE({enemy}): the time limit handed in is not read
NewCowboyQTE(drawDelay) ==
    [qte |-> NewQTE(COWBOY_TIME_LIMIT), phase |-> "waiting", drawDelay |-> drawDelay,
     drawTimer |-> 0]

\* CowboyQTE.update in the draw phase
CowboyDraw(c, dt) ==
    IF c.drawTimer + dt >= REACT_WINDOW
    THEN [c EXCEPT !.drawTimer = c.drawTimer + dt, !.qte = fail(c.qte)]
    ELSE [c EXCEPT !.drawTimer = c.drawTimer + dt]

\* CowboyQTE.update(dt)
CowboyQTEUpdate(c, dt) ==
    LET c1 == [c EXCEPT !.qte = QTEUpdate(c.qte, dt)]
    IN  IF c1.qte.completed THEN c1
        ELSE IF c1.phase = "waiting"
        THEN IF c1.qte.elapsed >= c1.drawDelay
             THEN [c1 EXCEPT !.phase = "draw", !.drawTimer = 0]
             ELSE c1
        ELSE IF c1.phase = "draw" THEN CowboyDraw(c1, dt)
        ELSE c1

\* CowboyQTE.onInput(event)
CowboyQTEOnInput(c, eventType) ==
    IF c.qte.completed \/ eventType # "mousedown" THEN c
    ELSE IF c.phase = "waiting" THEN [c EXCEPT !.qte = fail(c.qte)]
    ELSE IF c.phase = "draw" THEN [c EXCEPT !.qte = succeed(c.qte)]
    ELSE c

EventTypes == {"mousedown", "keydown"}

\* a duel just begun (the splash is over). now is the time since then, signalAt
\* the time the draw signal came up and clickAt the time of the first click
\* (-1: not yet)
InitCowboy ==
    /\ Standing
    /\ \E drawDelay \in DrawDelays :
         unit = [kind |-> "cowboy", q |-> NewCowboyQTE(drawDelay), now |-> 0,
                 signalAt |-> -1, clickAt |-> -1]

\* one frame: QTEScene.update runs the mini-game until it has completed, and pops
\* the scene then; followed until the first click, or past the time limit and
\* past the reaction window
CowboyFrame ==
    /\ unit.kind = "cowboy"
    /\ unit.clickAt < 0
    /\ unit.now < COWBOY_TIME_LIMIT + REACT_WINDOW
    /\ \E c1 \in {IF unit.q.qte.completed THEN unit.q
                  ELSE CowboyQTEUpdate(unit.q, frameTime)} :
         unit' = [unit EXCEPT !.q = c1, !.now = unit.now + frameTime,
                    !.signalAt = IF unit.q.phase = "waiting" /\ c1.phase = "draw"
                                 THEN unit.now + frameTime ELSE unit.signalAt]
    /\ UNCHANGED restVars

\* an input event between two frames
CowboyInput ==
    /\ unit.kind = "cowboy"
    /\ \E eventType \in EventTypes :
         unit' = [unit EXCEPT !.q = CowboyQTEOnInput(unit.q, eventType),
                    !.clickAt = IF eventType = "mousedown" /\ unit.clickAt < 0
                                THEN unit.now ELSE unit.clickAt]
    /\ UNCHANGED restVars

NextCowboy == CowboyFrame \/ CowboyInput

SpecCowboy == InitCowboy /\ [][NextCowboy]_vars

\* -------------------------------------------------------------- ClockQTE
\* Angles in degrees. Math.atan2 gives an angle in (-180, 180]; a target angle is
\* (hour / 12) * 360 - 90 or (minute / 60) * 360 - 90.
HOUR_TOLERANCE == 180 \div 12
MINUTE_TOLERANCE == 180 \div 6
CLOCK_TIME_LIMIT == 3 * TicksPerSecond
NoAngle == 999
ClockFrames == 2

\* the hours and minutes followed: 12 and 11 o'clock (270 - 30 degrees, past
\* atan2's range), the minutes 0 and 45
TargetHours == {0, 11}
TargetMinutes == {0, 45}

\* the directions of the mouse followed: on, at the edge of and outside each
\* tolerance of the targets above
MouseAngles == {-165, -120, -105, -90, -75, -60, -45, 0, 90, 150, 165, 180}

\* new ClockQTE({enemy})
NewClockQTE(targetHour, targetMinute) ==
    [qte |-> NewQTE(CLOCK_TIME_LIMIT),
     targetHourAngle |-> (targetHour * 360) \div 12 - 90,
     targetMinuteAngle |-> (targetMinute * 360) \div 60 - 90,
     phase |-> "hour", currentAngle |-> -90, lockedHourAngle |-> NoAngle]

\* ClockQTE.update(dt); mouseAngle is atan2 of the mouse about the clock's centre
ClockQTEUpdate(c, dt, mouseAngle) ==
    LET c1 == [c EXCEPT !.qte = QTEUpdate(c.qte, dt)]
    IN  IF c1.qte.completed THEN c1 ELSE [c1 EXCEPT !.currentAngle = mouseAngle]

RECURSIVE Turned(_)
\* the two while loops of _angleDiff
Turned(diff) ==
    IF diff > 180 THEN Turned(diff - 360)
    ELSE IF diff < -180 THEN Turned(diff + 360)
    ELSE diff

AngleDiffUnturned(a, b) == Abs(a - b)

\* ClockQTE._angleDiff(a, b)
angleDiff(a, b) == Abs(Turned(a - b))

\* ClockQTE.onInput(event)
ClockQTEOnInput(c, event) ==
    IF c.qte.completed \/ event.type # "mousedown" \/ event.button # 0 THEN c
    ELSE IF c.phase = "hour"
    THEN [c EXCEPT !.lockedHourAngle = c.currentAngle, !.phase = "minute"]
    ELSE IF c.phase = "minute"
    THEN IF /\ angleDiff(c.lockedHourAngle, c.targetHourAngle) <= HOUR_TOLERANCE
            /\ angleDiff(c.currentAngle, c.targetMinuteAngle) <= MINUTE_TOLERANCE
         THEN [c EXCEPT !.qte = succeed(c.qte)]
         ELSE [c EXCEPT !.qte = fail(c.qte)]
    ELSE c

ClockEvents ==
    {[type |-> "mousedown", button |-> 0], [type |-> "mousedown", button |-> 2],
     [type |-> "keydown", button |-> -1]}

\* a clock just shown, or one whose time is almost up with the mouse kept
\* straight above the centre so far; clicks counts the left clicks delivered
InitClock ==
    /\ Standing
    /\ \E targetHour \in TargetHours, targetMinute \in TargetMinutes,
          elapsed \in {0, CLOCK_TIME_LIMIT - 2 * MAX_DT} :
         unit = [kind |-> "clock",
                 q |-> [NewClockQTE(targetHour, targetMinute)
                          EXCEPT !.qte.elapsed = elapsed],
                 frames |-> 0, clicks |-> 0]

ClockFrame ==
    /\ unit.kind = "clock"
    /\ ~unit.q.qte.completed
    /\ unit.frames < ClockFrames
    /\ \E mouseAngle \in MouseAngles :
         unit' = [unit EXCEPT !.q = ClockQTEUpdate(unit.q, frameTime, mouseAngle),
                              !.frames = unit.frames + 1]
    /\ UNCHANGED restVars

\* an input event between two frames, while the scene is there to forward it
ClockInput ==
    /\ unit.kind = "clock"
    /\ ~unit.q.qte.completed
    /\ \E event \in ClockEvents :
         unit' = [unit EXCEPT !.q = ClockQTEOnInput(unit.q, event),
                    !.clicks = IF event.type = "mousedown" /\ event.button = 0
                               THEN unit.clicks + 1 ELSE unit.clicks]
    /\ UNCHANGED restVars

NextClock == ClockFrame \/ ClockInput

SpecClock == InitClock /\ [][NextClock]_vars

\* -------------------------------------------------------------- HeartQTE
\* Positions in 1/(19 * TicksPerSecond) of a pixel: getHeartScrollSpeed is
\* 120 + 160 * (levelDepth - 1) / 19 px/s between depths 1 and 20, so a frame's
\* scroll, speed * dt, is a whole number.
HeartUnit == 19 * TicksPerSecond
CANVAS_WIDTH == 800
HEART_SPACING == 120
HIT_TOLERANCE == 36
TARGET_X == CANVAS_WIDTH - 160

\* getHeartScrollSpeed(levelDepth) = _lerp(120, 280, levelDepth, 1, 20), as the
\* distance scrolled in one tick
getHeartScrollSpeed(levelDepth) == 120 * 19 + 160 * Clamp(levelDepth - 1, 0, 19)

\* new HeartQTE({enemy, timeLimit, levelDepth})
NewHeartQTE(timeLimit, levelDepth) ==
    [qte |-> NewQTE(timeLimit),
     heartCount |-> getHeartCount(levelDepth),
     scrollSpeed |-> getHeartScrollSpeed(levelDepth),
     hearts |-> [i \in 1..getHeartCount(levelDepth) |->
                   [x |-> (TARGET_X - 150 - (i - 1) * HEART_SPACING) * HeartUnit,
                    hit |-> FALSE, missed |-> FALSE]],
     nextHeart |-> 0]

\* HeartQTE.update(dt)
HeartQTEUpdate(c, dt) ==
    LET c1 == [c EXCEPT !.qte = QTEUpdate(c.qte, dt)]
        c2 == [c1 EXCEPT !.hearts = [i \in 1..c.heartCount |->
                               [c.hearts[i] EXCEPT !.x = @ + c.scrollSpeed * dt]]]
        n == c2.nextHeart + 1
    IN  IF c1.qte.completed THEN c1
        ELSE IF c2.nextHeart < c2.heartCount
                 /\ c2.hearts[n].x > (TARGET_X + HIT_TOLERANCE) * HeartUnit
                 /\ ~c2.hearts[n].hit
        THEN [c2 EXCEPT !.hearts[n].missed = TRUE, !.qte = fail(c2.qte)]
        ELSE c2

\* any heart that has not yet passed the zone counts
NotYetPast(h) == h.x <= (TARGET_X + HIT_TOLERANCE) * HeartUnit

\* dist <= HIT_TOLERANCE, with dist = Math.abs(h.x - TARGET_X)
InHitZone(h) == Abs(h.x - TARGET_X * HeartUnit) <= HIT_TOLERANCE * HeartUnit

\* HeartQTE.onInput(event)
HeartQTEOnInput(c, eventType) ==
    IF c.qte.completed \/ eventType # "mousedown" \/ c.nextHeart >= c.heartCount THEN c
    ELSE IF InHitZone(c.hearts[c.nextHeart + 1])
    THEN LET c1 == [c EXCEPT !.hearts[c.nextHeart + 1].hit = TRUE,
                             !.nextHeart = c.nextHeart + 1]
         IN  IF c1.nextHeart >= c1.heartCount
             THEN [c1 EXCEPT !.qte = succeed(c1.qte)]
             ELSE c1
    ELSE [c EXCEPT !.qte = fail(c.qte)]

\* the depths followed: three hearts at 120 px/s in 5 s, five at about 204 px/s
\* in 3 s
HeartDepths == {1, 11}

\* a HeartQTE just begun; frames and clicks count the updates and the clicks
InitHeart ==
    /\ Standing
    /\ \E levelDepth \in HeartDepths :
         unit = [kind |-> "heart",
                 q |-> NewHeartQTE(getQTETimeLimit(levelDepth), levelDepth),
                 frames |-> 0, clicks |-> 0]

HeartFrame ==
    /\ unit.kind = "heart"
    /\ ~unit.q.qte.completed
    /\ unit' = [unit EXCEPT !.q = HeartQTEUpdate(unit.q, frameTime),
                            !.frames = unit.frames + 1]
    /\ UNCHANGED restVars

\* an input event between two frames, while the scene is there to forward it
HeartInput ==
    /\ unit.kind = "heart"
    /\ ~unit.q.qte.completed
    /\ \E eventType \in EventTypes :
         unit' = [unit EXCEPT !.q = HeartQTEOnInput(unit.q, eventType),
                    !.clicks = IF eventType = "mousedown"
                               THEN unit.clicks + 1 ELSE unit.clicks]
    /\ UNCHANGED restVars

NextHeart == HeartFrame \/ HeartInput

SpecHeart == InitHeart /\ [][NextHeart]_vars

\* -------------------------------------------------------------- GopherQTE
HOLE_COLS == 3
HOLE_ROWS == 3
HoleCount == HOLE_COLS * HOLE_ROWS
WhackFlash == (15 * TicksPerSecond) \div 100
FirstPop == (2 * TicksPerSecond) \div 10

\* getGopherPopDuration(levelDepth) = _lerp(1.2, 0.5, levelDepth, 1, 20), whole
\* at the two ends of the range
getGopherPopDuration(levelDepth) ==
    (12 * TicksPerSecond) \div 10
      - (7 * TicksPerSecond * Clamp(levelDepth - 1, 0, 19)) \div 190

getGopherPopInterval == (4 * TicksPerSecond) \div 10

\* Math.round(_lerp(30, 7, levelDepth, 1, 20))
getGopherMaxPops(levelDepth) ==
    30 + ((19 - 2 * 23 * Clamp(levelDepth - 1, 0, 19)) \div (2 * 19))

NewHole == [active |-> FALSE, timer |-> 0, whacked |-> FALSE, whackTimer |-> 0]

\* new GopherQTE({enemy, timeLimit, levelDepth}); a hole's place on the screen is
\* its index, rows first
NewGopherQTE(timeLimit, levelDepth) ==
    [qte |-> NewQTE(timeLimit), whacked |-> 0,
     targetWhacks |-> getGopherWhacks(levelDepth),
     popDuration |-> getGopherPopDuration(levelDepth),
     popInterval |-> getGopherPopInterval,
     maxPops |-> getGopherMaxPops(levelDepth),
     totalPops |-> 0, popTimer |-> FirstPop,
     holes |-> [i \in 1..HoleCount |-> NewHole]]

\* the inactive holes the random draw of _popRandomHole is followed for: the
\* first and the last of them
PickChoices == {"first", "last"}

\* GopherQTE._popRandomHole()
popRandomHole(c, pick) ==
    LET inactive == {i \in 1..HoleCount : ~c.holes[i].active}
        hole == IF pick = "first" THEN LowestOf(inactive)
                ELSE CHOOSE i \in inactive : \A j \in inactive : j <= i
    IN  IF inactive = {} THEN c
        ELSE [c EXCEPT !.holes[hole].active = TRUE,
                       !.holes[hole].timer = c.popDuration,
                       !.totalPops = c.totalPops + 1]

\* the pop timer of GopherQTE.update
PopTimerStep(c, dt, pick) ==
    IF c.popTimer - dt <= 0
    THEN LET c1 == [c EXCEPT !.popTimer = c.popInterval]
         IN  IF c1.totalPops < c1.maxPops THEN popRandomHole(c1, pick) ELSE c1
    ELSE [c EXCEPT !.popTimer = c.popTimer - dt]

\* the loop over the holes of GopherQTE.update
HoleStep(h, dt) ==
    LET h1 == IF h.active
              THEN [h EXCEPT !.timer = h.timer - dt, !.active = h.timer - dt > 0]
              ELSE h
    IN  IF h1.whacked
        THEN [h1 EXCEPT !.whackTimer = h1.whackTimer - dt,
                        !.whacked = h1.whackTimer - dt > 0]
        ELSE h1

\* a click that misses every popped hole fails the QTE
WhackOrFail(c, click) ==
    IF click < 1 THEN IF click = 0 THEN [c EXCEPT !.qte = fail(c.qte)] ELSE c
    ELSE IF ~c.holes[click].active THEN [c EXCEPT !.qte = fail(c.qte)]
    ELSE [c EXCEPT !.holes[click].active = FALSE, !.holes[click].whacked = TRUE,
                   !.whacked = c.whacked + 1]

\* the mouse check of GopherQTE.update. click is -1 when the left button was not
\* pressed this frame, 0 when it was pressed outside every hole's click radius
\* and the hole's index otherwise (the holes are 100 px and 80 px apart, the
\* radius is 36 px, so the mouse is within the radius of one hole at most)
Whack(c, click) ==
    IF click < 1 \/ ~c.holes[click].active THEN c
    ELSE LET c1 == [c EXCEPT !.holes[click].active = FALSE,
                             !.holes[click].whacked = TRUE,
                             !.holes[click].whackTimer = WhackFlash,
                             !.whacked = c.whacked + 1]
         IN  IF c1.whacked >= c1.targetWhacks
             THEN [c1 EXCEPT !.qte = succeed(c1.qte)]
             ELSE c1

\* GopherQTE.update(dt)
GopherQTEUpdate(c, dt, pick, click) ==
    LET c1 == [c EXCEPT !.qte = QTEUpdate(c.qte, dt)]
        c2 == PopTimerStep(c1, dt, pick)
        c3 == [c2 EXCEPT !.holes = [i \in 1..HoleCount |-> HoleStep(c2.holes[i], dt)]]
    IN  IF c1.qte.completed THEN c1 ELSE Whack(c3, click)

\* the clicks followed: none, one outside every hole, one on the first, the
\* middle and the last hole; the mouse button is followed on the frames that
\* begin a fifth of a second
ClickEvery == TicksPerSecond \div 5
ClickChoices(elapsed) ==
    IF elapsed % ClickEvery = 0 THEN {-1, 0, 1, (HoleCount + 1) \div 2, HoleCount}
    ELSE {-1}

\* the depth followed: six whacks in 3 s, gophers up for 0.5 s each
GopherDepth == 20

\* a GopherQTE just begun. click is the frame's click, quiet what the frame would
\* have left without it.
InitGopherQTE ==
    /\ Standing
    /\ \E levelDepth \in {GopherDepth} :
         \E c \in {NewGopherQTE(getQTETimeLimit(levelDepth), levelDepth)} :
           unit = [kind |-> "gopher", q |-> c, quiet |-> c, click |-> -1, frames |-> 0]

GopherQTEFrame ==
    /\ unit.kind = "gopher"
    /\ ~unit.q.qte.completed
    /\ \E pick \in PickChoices, click \in ClickChoices(unit.q.qte.elapsed) :
         unit' = [unit EXCEPT !.q = GopherQTEUpdate(unit.q, frameTime, pick, click),
                              !.quiet = GopherQTEUpdate(unit.q, frameTime, pick, -1),
                              !.click = click,
                              !.frames = unit.frames + 1]
    /\ UNCHANGED restVars

\* an input event: GopherQTE has no onInput of its own
GopherQTEInput ==
    /\ unit.kind = "gopher"
    /\ ~unit.q.qte.completed
    /\ UNCHANGED vars

NextGopherQTE == GopherQTEFrame \/ GopherQTEInput

SpecGopherQTE == InitGopherQTE /\ [][NextGopherQTE]_vars

\* ------------------------------------------------------- Gopher's burrow
\* _undergroundMin = max(0.5, UNDERGROUND_MIN / difficulty) and _undergroundMax =
\* max(0.5, UNDERGROUND_MAX / difficulty) with difficulty >= 1: a stay underground
\* lasts between half a second and UNDERGROUND_MAX
UNDERGROUND_MAX == 3 * TicksPerSecond
UndergroundLeast == TicksPerSecond \div 2

\* a gopher just spawned (its constructor has put it underground); under is the
\* play time since it last went underground
InitBurrow ==
    /\ Standing
    /\ unit = [kind |-> "burrow", e |-> NewEnemy("gopher"), under |-> 0]

\* the time underground after a step from e to e1
UnderAfter(e, e1, under, dt) ==
    IF e1.state # "underground" THEN 0
    ELSE IF e.state = "underground" THEN under + dt
    ELSE 0

\* Gopher.update(dt, ...): underground, the state timer runs out between the
\* least and the greatest duration
BurrowUpdate ==
    /\ unit.kind = "burrow"
    /\ unit.e.active
    /\ \E timerOut \in BOOLEAN :
         /\ unit.e.state = "underground"
              => /\ timerOut => unit.under + frameTime >= UndergroundLeast
                 /\ unit.under + frameTime >= UNDERGROUND_MAX => timerOut
         /\ \E e1 \in {EnemyUpdate(unit.e, frameTime, timerOut)} :
              unit' = [unit EXCEPT !.e = e1,
                                   !.under = UnderAfter(unit.e, e1, unit.under,
                                                        frameTime)]
    /\ UNCHANGED restVars

\* a QTE's blast or retreat push reaches the gopher: applyKnockback
BurrowKnockback ==
    /\ unit.kind = "burrow"
    /\ unit.e.active
    /\ \E e1 \in {applyKnockback(unit.e)} :
         unit' = [unit EXCEPT !.e = e1,
                              !.under = UnderAfter(unit.e, e1, unit.under, 0)]
    /\ UNCHANGED restVars

\* the gopher's own QTE is won: takeDamage
BurrowTakeDamage ==
    /\ unit.kind = "burrow"
    /\ unit.e.active
    /\ canTriggerQTE(unit.e)
    /\ unit' = [unit EXCEPT !.e = takeDamage(unit.e)]
    /\ UNCHANGED restVars

NextBurrow == BurrowUpdate \/ BurrowKnockback \/ BurrowTakeDamage

SpecBurrow == InitBurrow /\ [][NextBurrow]_vars

\* ------------------------------------------------------------- anticipation cue
\* One enemy of any class is followed through its updates and the knockbacks that
\* reach it: was = _wasAnticipating, cues = the enemyAnticipation sounds played,
\* entries = the times isAnticipating has gone from false to true.
MaxEntries == 3

\* get isAnticipating, per class (Enemy's own getter returns false)
isAnticipating(e) ==
    CASE e.type = "bat" -> e.state = "windup"
      [] e.type = "cowboy" -> e.state = "telegraph"
      [] e.type = "gopher" -> e.state = "emerging"
      [] e.type = "spinningTop" -> e.state = "winding"
      [] e.type = "controller" -> e.state = "flash"
      [] e.type = "letter" -> e.state = "aiming"
      [] OTHER -> FALSE

\* the classes that define update() themselves; none of them calls super.update()
OverridesUpdate(type) == type \in EnemyTypes

\* the enemyAnticipation sounds one update(dt, ...) of the enemy plays: the lines
\* of Enemy.update run only for a class that does not override update()
CueOf(e, was) ==
    IF OverridesUpdate(e.type) THEN 0
    ELSE IF e.active /\ ~e.falling /\ isAnticipating(e) /\ ~was THEN 1 ELSE 0

\* _wasAnticipating after that update
WasAfter(e, was) ==
    IF OverridesUpdate(e.type) \/ ~e.active \/ e.falling THEN was
    ELSE isAnticipating(e)

EntryBetween(e, e1) == IF ~isAnticipating(e) /\ isAnticipating(e1) THEN 1 ELSE 0

InitCue ==
    /\ Standing
    /\ \E type \in EnemyTypes :
         \E e \in {NewEnemy(type)} :
           unit = [kind |-> "cue", e |-> e, was |-> FALSE, cues |-> 0,
                   entries |-> IF isAnticipating(e) THEN 1 ELSE 0]

\* EnemyClass.update(dt, ...): the class's behaviour, then whatever of
\* Enemy.update the class runs
CueUpdate ==
    /\ unit.kind = "cue"
    /\ unit.e.active
    /\ unit.entries < MaxEntries
    /\ \E timerOut \in BOOLEAN :
         \E e1 \in {EnemyUpdate(unit.e, frameTime, timerOut)} :
           unit' = [unit EXCEPT !.e = e1,
                                !.was = WasAfter(e1, unit.was),
                                !.cues = unit.cues + CueOf(e1, unit.was),
                                !.entries = unit.entries + EntryBetween(unit.e, e1)]
    /\ UNCHANGED restVars

\* a QTE's blast or retreat push reaches the enemy: applyKnockback
CueKnockback ==
    /\ unit.kind = "cue"
    /\ unit.e.active
    /\ unit.entries < MaxEntries
    /\ \E e1 \in {applyKnockback(unit.e)} :
         unit' = [unit EXCEPT !.e = e1,
                              !.entries = unit.entries + EntryBetween(unit.e, e1)]
    /\ UNCHANGED restVars

\* the enemy's QTE is won: takeDamage
CueTakeDamage ==
    /\ unit.kind = "cue"
    /\ unit.e.active
    /\ canTriggerQTE(unit.e)
    /\ unit' = [unit EXCEPT !.e = takeDamage(unit.e)]
    /\ UNCHANGED restVars

NextCue == CueUpdate \/ CueKnockback \/ CueTakeDamage

SpecCue == InitCue /\ [][NextCue]_vars

\* ------------------------------------------------------------- knockback decay
\* One enemy's knockback velocity is followed from applyKnockback through the
\* updates after it, in hundredths of a px/s: v = <<knockbackVx, knockbackVy>>,
\* since = the play time of the updates since the push.
VelUnit == 10 * 10

\* Math.exp(-KNOCKBACK_FRICTION * dt) in ten-thousandths, rounded up, for the
\* two frame times: exp(-5/60) = 0.92004..., exp(-5/30) = 0.84648...
FrictionUnit == VelUnit * VelUnit

FrictionOf(dt) == IF dt * 60 <= TicksPerSecond THEN 9201 ELSE 8465

\* v * decay, rounded away from zero: never less than the product the code forms
Decayed(v, dt) ==
    Sgn(v) * ((Abs(v) * FrictionOf(dt) + FrictionUnit - 1) \div FrictionUnit)

\* a decay that is never snapped
Unsnapped(v) == v

\* "Snap to zero when velocity is negligible"
SnapToZero(v) ==
    IF Abs(v[1]) < 1 * VelUnit /\ Abs(v[2]) < 1 * VelUnit THEN <<0, 0>> ELSE v

\* Enemy._updateKnockback(dt), the velocity after it
updateKnockback(v, dt) ==
    IF v[1] = 0 /\ v[2] = 0 THEN v
    ELSE SnapToZero(<<Decayed(v[1], dt), Decayed(v[2], dt)>>)

\* the unit vectors away from the push's centre, in hundredths
PushDirections ==
    {<<100, 0>>, <<0, -100>>, <<60, 80>>, <<-71, -71>>, <<-80, 60>>, <<1, 100>>}

PushForces == {KNOCKBACK_FORCE, RETREAT_KNOCKBACK_FORCE}

\* ln(KNOCKBACK_FORCE) / KNOCKBACK_FRICTION = 1.198 s: the time after which a
\* velocity of at most KNOCKBACK_FORCE has decayed below 1 px/s
SettleTicks == (5 * TicksPerSecond) \div 4

InitSettle ==
    /\ Standing
    /\ unit = [kind |-> "knock", v |-> <<0, 0>>, since |-> 0]

\* enemy.applyKnockback(fromX, fromY, force)
SettlePush ==
    /\ unit.kind = "knock"
    /\ \E dir \in PushDirections, force \in PushForces :
         unit' = [unit EXCEPT !.v = <<(dir[1] * force * VelUnit) \div 100,
                                      (dir[2] * force * VelUnit) \div 100>>,
                              !.since = 0]
    /\ UNCHANGED restVars

\* one update of the enemy while it still slides
SettleUpdate ==
    /\ unit.kind = "knock"
    /\ unit.v # <<0, 0>>
    /\ unit.since <= SettleTicks
    /\ unit' = [unit EXCEPT !.v = updateKnockback(unit.v, frameTime),
                            !.since = unit.since + frameTime]
    /\ UNCHANGED restVars

NextSettle == SettlePush \/ SettleUpdate

SpecSettle == InitSettle /\ [][NextSettle]_vars

\* ------------------------------------------------------------- falling in
\* One enemy spawned by _spawnChallengeEnemy is followed through the updates
\* after startFall: played = the play time of those updates, landed = justLanded
\* has been raised. The frame that follows an update clears justLanded.
InitFall ==
    /\ Standing
    /\ \E i \in 1..Len(getAvailableTypes(level.depth)) :
         unit = [kind |-> "fall",
                 e |-> SpawnChallengeEnemy(getAvailableTypes(level.depth)[i]),
                 played |-> 0, landed |-> FALSE]

\* EnemyClass.update(dt, ...) of the next active frame
FallUpdate ==
    /\ unit.kind = "fall"
    /\ unit.played < unit.e.fallDuration + MAX_DT
    /\ \E timerOut \in BOOLEAN :
         \E e1 \in {EnemyUpdate([unit.e EXCEPT !.justLanded = FALSE], frameTime,
                                timerOut)} :
           unit' = [unit EXCEPT !.e = e1,
                                !.played = unit.played + frameTime,
                                !.landed = unit.landed \/ e1.justLanded]
    /\ UNCHANGED restVars

\* a QTE's blast reaches the enemy: applyKnockback
FallKnockback ==
    /\ unit.kind = "fall"
    /\ unit.e.active
    /\ unit' = [unit EXCEPT !.e = applyKnockback(unit.e)]
    /\ UNCHANGED restVars

NextFall == FallUpdate \/ FallKnockback

SpecFall == InitFall /\ [][NextFall]_vars

\* ------------------------------------------------------ level transition
\* the challenge types followed for the level below: a room to clear and a
\* challenge room, a boss room every 5th depth
RunTypes == {"KILL_ALL", "CHALLENGE"}

NextLevels(lvl) ==
    {[depth |-> lvl.depth + 1, type |-> t] :
        t \in IF (lvl.depth + 1) % 5 = 0 THEN {"BOSS"} ELSE RunTypes}

\* _initLevel() at the end of the fall: the next level is generated; the player
\* object, the hitstop timer and the scene stack are kept
InitNextLevel ==
    \E lvl \in NextLevels(level) :
        /\ level' = lvl
        /\ frameCount' = 0
        /\ bulletDamageFrame' = NegInfinity
        /\ qteActive' = FALSE
        /\ gameOverPushed' = FALSE
        /\ bullets' = 0
        /\ enemies' \in InitialEnemies(lvl, 1)
        /\ generators' = [g \in 1..GeneratorCount(lvl.type) |-> FALSE]
        /\ bossHP' = IF lvl.type = "BOSS" THEN BOSS_MAX_HP ELSE 0
        /\ bossSpawnTimer' = IF lvl.type = "BOSS" THEN BOSS_SPAWN_INTERVAL ELSE 0
        /\ run' = [NewRun(lvl) EXCEPT !.transition = [phase |-> "splash", timer |-> 0],
                                      !.floors = run.floors + 1,
                                      !.overs = run.overs]
        /\ ev' = NoEv
        /\ hit' = NoHit

\* the next phase of a transition and how long the current one lasts
PhaseAfter(phase) ==
    CASE phase = "falling" -> "splash"
      [] phase = "splash" -> "landing"
      [] phase = "landing" -> "squash"
      [] OTHER -> "none"

PhaseDuration(phase) ==
    CASE phase = "falling" -> FALL_DURATION
      [] phase = "splash" -> SPLASH_DURATION
      [] phase = "landing" -> LAND_DURATION
      [] OTHER -> SQUASH_DURATION

\* GameplayScene.update while this.transition is set: _updateTransition(dt) and
\* nothing else
GameplayTransition ==
    /\ Top(scenes) = "gameplay"
    /\ run.transition.phase # "none"
    /\ UNCHANGED <<scenes, freezeTimer, player, qteScene, frameTime, called, late,
                   finished, geo, blast, pool, letter, trail, machine, unit>>
    /\ LET t1 == run.transition.timer + frameTime
           phase == run.transition.phase
       IN  IF t1 < PhaseDuration(phase)
           THEN /\ run' = [run EXCEPT !.transition.timer = t1]
                /\ UNCHANGED <<level, frameCount, bulletDamageFrame, qteActive,
                               gameOverPushed, bullets, enemies, generators, bossHP,
                               bossSpawnTimer, ev, hit>>
           ELSE IF phase = "falling" THEN InitNextLevel
           ELSE /\ run' = [run EXCEPT !.transition = [phase |-> PhaseAfter(phase),
                                                      timer |-> 0]]
                /\ UNCHANGED <<level, frameCount, bulletDamageFrame, qteActive,
                               gameOverPushed, bullets, enemies, generators, bossHP,
                               bossSpawnTimer, ev, hit>>

\* ------------------------------------------------------------ boss room
\* a boss room at depth 15 some way into the fight: two bats of the last wave
\* have landed, the player has touched the first and its QTE scene has just been
\* pushed; the boss has all, two or one of its HP left, and the QTEs won so far
\* are the HP it has lost
BossFrames == 6

BossHPs == {1, 2, BOSS_MAX_HP}

InitBoss ==
    /\ level = LevelAt(15)
    /\ frameTime = MAX_DT
    /\ scenes = <<"menu", "gameplay", "qte">>
    /\ frameCount = 1
    /\ bulletDamageFrame = NegInfinity
    /\ qteActive = TRUE
    /\ freezeTimer = 0
    /\ player = NewPlayer
    /\ bullets = 0
    /\ enemies = <<NewEnemy("bat"), NewEnemy("bat")>>
    /\ generators = <<>>
    /\ bossHP \in BossHPs
    /\ bossSpawnTimer = 0
    /\ gameOverPushed = FALSE
    /\ run = [NewRun(level) EXCEPT !.levelTimer = @ - frameTime,
                                   !.wins = BOSS_MAX_HP - bossHP,
                                   !.floors = MaxFloors]
    /\ qteScene = QTESceneEnter(NewQTEScene([kind |-> "enemy", idx |-> 1]), level.depth)
    /\ hit = NoHit
    /\ called = <<>>
    /\ late = FALSE
    /\ finished = NoFinished
    /\ ev = [NoEv EXCEPT !.counted = 1, !.trigger = [kind |-> "enemy", idx |-> 1]]
    /\ geo = NoGeo
    /\ blast = NoBlast
    /\ Unfollowed

NextBoss ==
    \/ GameplayUpdate(1 + BossFrames)
    \/ QTESceneUpdate
    \/ QTESceneInput

SpecBoss == InitBoss /\ [][NextBoss]_vars

\* ------------------------------------------------------- challenge room
\* a challenge room at depth 11, every frame so far 1/30 s long and no QTE yet:
\* at frame 91 the first wave, spawned when the spawn timer ran out, is about to
\* land next to a lunging bat with two bullets in flight; at frame 749 the level
\* timer is about to reach the safe time; at frame 899 it is about to run out
RunFrames == 1

RunDepth == 11

RunLives == {1, 2, PLAYER_MAX_LIVES}

RunLevel == [depth |-> RunDepth, type |-> "CHALLENGE"]

WaveLands == (getChallengeSpawnInterval(RunDepth) + CHALLENGE_FALL) \div MAX_DT

SafeNear ==
    (TicksPerSecond * (getChallengeTimeLimit(RunDepth) - getChallengeSafeTime(RunDepth)))
        \div MAX_DT - 1

TimeNear == (TicksPerSecond * getChallengeTimeLimit(RunDepth)) \div MAX_DT - 1

\* a room to clear at the same depth one frame into the level: its only enemy
\* is a heart, the player has touched it and its QTE scene has just been pushed
HeartRoom == [depth |-> RunDepth, type |-> "KILL_ALL"]

RunStarts == {1, WaveLands, SafeNear, TimeNear}

\* the frame the room is followed up to
RunLimit ==
    IF run.floors > 0 THEN RunFrames
    ELSE RunFrames + LowestOf({s \in RunStarts : frameCount <= s + RunFrames})

InitRun ==
    /\ frameCount \in RunStarts
    /\ level = IF frameCount = 1 THEN HeartRoom ELSE RunLevel
    /\ frameTime = MAX_DT
    /\ scenes = IF frameCount = 1 THEN <<"menu", "gameplay", "qte">>
                ELSE <<"menu", "gameplay">>
    /\ bulletDamageFrame = NegInfinity
    /\ qteActive = (frameCount = 1)
    /\ freezeTimer = 0
    /\ player \in {[NewPlayer EXCEPT !.lives = n] : n \in RunLives}
    /\ enemies = CASE frameCount = 1 -> <<NewEnemy("heart")>>
                   [] frameCount = WaveLands ->
                        <<Faller("spinningTop", frameTime),
                          setState(NewEnemy("bat"), "lunge")>>
                   [] OTHER -> <<NewEnemy("bat")>>
    /\ bullets = IF frameCount = WaveLands THEN 2 ELSE 0
    /\ generators = <<>>
    /\ bossHP = 0
    /\ bossSpawnTimer = 0
    /\ gameOverPushed = FALSE
    /\ run = [NewRun(level) EXCEPT
                !.levelTimer = @ - frameCount * frameTime,
                !.challengeFleeMode =
                    /\ level.type = "CHALLENGE"
                    /\ frameCount * frameTime
                         < TicksPerSecond * (getChallengeTimeLimit(RunDepth)
                                               - getChallengeSafeTime(RunDepth))]
    /\ qteScene = IF frameCount = 1
                  THEN QTESceneEnter(NewQTEScene([kind |-> "enemy", idx |-> 1]),
                                     level.depth)
                  ELSE NewQTEScene(NoSubject)
    /\ hit = NoHit
    /\ called = <<>>
    /\ late = FALSE
    /\ finished = NoFinished
    /\ ev = IF frameCount = 1
            THEN [NoEv EXCEPT !.counted = 1, !.trigger = [kind |-> "enemy", idx |-> 1]]
            ELSE NoEv
    /\ geo = NoGeo
    /\ blast = NoBlast
    /\ Unfollowed

NextRun ==
    \/ GameplayUpdate(RunLimit)
    \/ GameplayTransition
    \/ QTESceneUpdate
    \/ QTESceneInput

SpecRun == InitRun /\ [][NextRun]_vars

Next ==
    \/ GameplayUpdate(QTEFrames)
    \/ QTESceneUpdate
    \/ QTESceneInput
    \/ PauseUpdate

Init == InitOf({LevelAt(11)}, 1)

Spec == Init /\ [][Next]_vars

\* frame arbitration over a longer run with one enemy; a QTE scene, once pushed,
\* is only paused, resumed or abandoned
NextFrames ==
    \/ GameplayUpdate(MaxFrame)
    \/ QTEScenePause
    \/ PauseUpdate

InitFrames == InitOf({LevelAt(5), LevelAt(11)}, 1)

SpecFrames == InitFrames /\ [][NextFrames]_vars

\* frame arbitration with several enemies
NextPair ==
    \/ GameplayUpdate(PairFrames)
    \/ QTEScenePause
    \/ PauseUpdate

InitPair == InitOf({LevelAt(11), LevelAt(15)}, MaxEnemies)

SpecPair == InitPair /\ [][NextPair]_vars

\* a boss room at depth 15 just before the first wave lands: the wave of two was
\* spawned on frame 1 and has been falling since; a spinning top counts its fall
\* down, a bat does not
InitLanding ==
    /\ InitLevel(LevelAt(15))
    /\ run = NoRun
    /\ geo = NoGeo
    /\ blast = NoBlast
    /\ \E w \in {<<"bat", "spinningTop">>, <<"spinningTop", "bat">>} :
         enemies = [i \in 1..2 |-> Faller(w[i], frameTime)]
    /\ frameCount = CHALLENGE_FALL \div frameTime
    /\ bossSpawnTimer = BOSS_SPAWN_INTERVAL + CHALLENGE_FALL
                          - getBossSpawnInterval(level.depth)

NextLanding ==
    \/ GameplayUpdate((CHALLENGE_FALL \div frameTime) + LandingFrames)
    \/ QTESceneUpdate
    \/ QTESceneInput
    \/ PauseUpdate

SpecLanding == InitLanding /\ [][NextLanding]_vars

\* a room at depth 11 one frame into a run: on frame 1 the player has started a
\* dash to the left into a bat that overlaps them now, and the QTE scene for that
\* bat has just been pushed; positions are followed, at = player.x - bat.x
KnockOffsets == {10, 100}

Dashed(dt) == PlayerUpdate(NewPlayer, dt, TRUE)

\* frame 1 of a run at lvl has just pushed the QTE scene for enemy idx of es
InitPushed(lvl, es, idx) ==
    /\ level = lvl
    /\ frameTime \in DtSet
    /\ scenes = <<"menu", "gameplay", "qte">>
    /\ frameCount = 1
    /\ bulletDamageFrame = NegInfinity
    /\ qteActive = TRUE
    /\ freezeTimer = 0
    /\ enemies = es
    /\ generators = [g \in 1..GeneratorCount(lvl.type) |-> FALSE]
    /\ bossHP = 0
    /\ bossSpawnTimer = 0
    /\ gameOverPushed = FALSE
    /\ qteScene = QTESceneEnter(NewQTEScene([kind |-> "enemy", idx |-> idx]), lvl.depth)
    /\ hit = NoHit
    /\ called = <<>>
    /\ late = FALSE
    /\ finished = NoFinished
    /\ ev = [NoEv EXCEPT !.counted = 1, !.trigger = [kind |-> "enemy", idx |-> idx]]
    /\ Unfollowed

InitKnock ==
    /\ InitPushed(LevelAt(11), <<NewEnemy("bat")>>, 1)
    /\ run = NoRun
    /\ player = Dashed(frameTime)
    /\ bullets = 0
    /\ blast = NoBlast
    /\ \E at \in KnockOffsets :
         geo = [NewGeo(1, at, level.depth) EXCEPT !.lastDir = -1, !.dashDir = -1]

NextKnock ==
    \/ GameplayUpdate(1 + KnockFrames)
    \/ QTESceneUpdate
    \/ QTESceneInput
    \/ PauseUpdate

SpecKnock == InitKnock /\ [][NextKnock]_vars

\* a room at depth 11 one frame into a run, the QTE scene just pushed for an enemy
\* whose qteType no branch of _createQTE matches
FallbackFrames == 2

InitFallback ==
    /\ InitPushed(LevelAt(11), <<NewEnemy("unlisted")>>, 1)
    /\ run = NoRun
    /\ player = Dashed(frameTime)
    /\ bullets = 0
    /\ blast = NoBlast
    /\ geo = NoGeo

NextFallback ==
    \/ GameplayUpdate(1 + FallbackFrames)
    \/ QTESceneUpdate
    \/ QTESceneInput
    \/ PauseUpdate

SpecFallback == InitFallback /\ [][NextFallback]_vars

\* a room at depth 11 one frame into a run: the player has touched the first of
\* two enemies, a letter's bullet is in flight, and the blast of the QTE that
\* was pushed is recorded
BlastTargets == {"bat", "heart"}

InitBlast ==
    /\ \E t \in BlastTargets, b \in BOOLEAN :
         InitPushed(LevelAt(11), <<NewEnemy(t), IF b THEN takeDamage(NewEnemy("letter"))
                                                ELSE NewEnemy("letter")>>, 1)
    /\ player = NewPlayer
    /\ bullets = MaxBullets
    /\ geo = NoGeo
    /\ run = NoRun
    /\ blast = [NoBlast EXCEPT !.on = TRUE]

NextBlast ==
    \/ GameplayUpdate(1 + BlastFrames)
    \/ QTESceneUpdate
    \/ QTESceneInput
    \/ PauseUpdate

SpecBlast == InitBlast /\ [][NextBlast]_vars

\* ---------------------------------------------------------------- claims
\* C1: when a bullet hits the player and a QTE is triggered on an enemy two
\* gameplay frames later, inside the 3-frame priority window, the bullet damage is
\* undone: the player's lives equal their value before the bullet hit.
C1_BulletDamageUndone ==
    (Top(scenes) = "qte" /\ ev.trigger.kind = "enemy" /\ hit.since = 2)
        => player.lives = hit.lives

\* C2: at most one QTE is in progress: there is never more than one QTE scene on
\* the stack, and a gameplay frame that runs while qteActive is set triggers no
\* QTE, whatever enemy or generator the player overlaps.
C2_SingleQTE ==
    /\ Cardinality({i \in DOMAIN scenes : scenes[i] = "qte"}) <= 1
    /\ ev.gated => ev.trigger = NoSubject

C2_Witness ==
    /\ Top(scenes) = "gameplay"
    /\ qteActive
    /\ ev.gated /\ ev.touched

\* C3: on a frame whose QTE check finds an overlapped enemy, the QTE is triggered
\* and the rest of the collision checks is skipped: no bullet is consumed and
\* neither bullet nor lunge damage is dealt on that frame.
C3_QTEPreemptsCollisions ==
    ev.trigger.kind = "enemy" =>
        /\ qteActive \/ Top(scenes) # "qte"
        /\ ev.consumed = 0
        /\ ~ev.bulletDmg
        /\ ~ev.lungeDmg

C3_Witness ==
    /\ Top(scenes) = "qte"
    /\ ev.trigger.kind = "enemy"
    /\ ev.hitsOffered > 0
    /\ ev.lungeOffered

\* C4: frameCount advances by exactly one on every gameplay frame that is not
\* frozen, and does not change on a frame frozen by hitstop.
C4_FrameCountFrozenInHitstop ==
    ev # NoEv => ev.counted = (IF ev.frozen THEN 0 ELSE 1)

\* C5: a QTE's completed flag becomes true at most once and its result never
\* changes afterwards: succeed() and fail() on a completed QTE change nothing, and
\* no second callback is fired for it.
C5_CompletedOnce ==
    [][/\ qteScene.qte.completed =>
            \/ qteScene'.qte.completed /\ qteScene'.qte.result = qteScene.qte.result
            \/ /\ Top(scenes) = "qte" /\ qteScene' = NoScene
               /\ finished'.completed /\ finished'.result = qteScene.qte.result
            \/ Top(scenes) = "pause" /\ qteScene' = NoScene
       /\ Len(called') <= 1]_vars

C5_Witness ==
    /\ Top(scenes) = "qte"
    /\ late
    /\ qteScene.qte.completed

\* C6: onSuccess or onFail is invoked only by the update that finds the QTE
\* completed, exactly one of the two and exactly once, onSuccess exactly when the
\* result is success; pausing, resuming or abandoning the scene invokes neither.
C6_OneCallback ==
    [][/\ Len(called') > Len(called) =>
            /\ Top(scenes) = "qte"
            /\ called = <<>>
            /\ finished'.completed
            /\ called' = <<IF finished'.result = "success" THEN "onSuccess" ELSE "onFail">>
            /\ scenes' = Pop(scenes)
       /\ (Top(scenes) = "qte" /\ Top(scenes') = "gameplay") => Len(called') = 1
       /\ (Top(scenes) = "pause" \/ Top(scenes') = "pause") => called' = called]_vars

C6_Witness ==
    /\ called = <<"onSuccess">>
    /\ finished.result = "success"
    /\ ~qteActive

\* C7: a QTE that keeps being updated is completed no later than the first update
\* in which elapsed >= timeLimit, and that update fails it when neither succeed()
\* nor fail() was called before.
C7_TimeoutFails ==
    /\ (qteScene.qte # NoQTE /\ qteScene.qte.elapsed >= qteScene.qte.timeLimit)
          => qteScene.qte.completed
    /\ finished.expired => finished.completed /\ finished.result = "fail"

C7_Witness ==
    /\ finished.expired
    /\ called = <<"onFail">>

C9_NoQTEWhileFalling ==
    \A i \in Indices(enemies) :
        (enemies[i].falling \/ enemies[i].justLanded) => ~canTriggerQTE(enemies[i])

\* C10: justLanded is true for one frame only: it is set when the fall timer runs
\* out and cleared by the gameplay scene on the same frame, so no gameplay frame
\* starts with the flag still set on an enemy.
C10_JustLandedOneFrame == ~ev.stale

\* C11: while an enemy of any type is falling, normal update logic is ignored: a
\* gameplay frame leaves the behaviour state (and the burrow grace timer) of every
\* falling enemy as it was.
C11_FallingIgnoresUpdate ==
    [][(Top(scenes) = "gameplay" /\ frameCount' = frameCount + 1)
          => \A i \in Indices(enemies) :
                (enemies[i].active /\ enemies[i].falling)
                  => /\ enemies'[i].state = enemies[i].state
                     /\ enemies'[i].burrowGrace = enemies[i].burrowGrace]_vars


\* C12: after a QTE on an enemy fails, that enemy does not trigger another QTE on
\* the next active (unfrozen) gameplay frame.
C12_NoRetriggerAfterFail ==
    [][(/\ geo.failed # 0
        /\ Top(scenes) = "gameplay"
        /\ frameCount' = frameCount + 1
        /\ ~ev'.frozen)
          => ~(ev'.trigger.kind = "enemy" /\ ev'.trigger.idx = geo.failed)]_vars


\* C13: on QTE success, right after the callback, the target enemy is inactive,
\* no bullet that is still active lies within 240 px of the blast centre, and
\* every other enemy that was active within 240 px of it has received a
\* knockback impulse pointing away from the centre.
C13_BlastClears ==
    (blast.on /\ blast.cb = "onSuccess" /\ blast.subject.kind = "enemy")
      => /\ ~blast.after[blast.subject.idx].active
         /\ \A b \in 1..Len(blast.left) : Abs(blast.left[b]) > 240
         /\ \A i \in Indices(blast.before) \ {blast.subject.idx} :
               (blast.before[i].active /\ Abs(blast.where[i]) <= 240)
                 => /\ i \in DOMAIN blast.knocked
                    /\ blast.knocked[i] * blast.where[i] > 0

C13_Witness ==
    /\ blast.on /\ blast.cb = "onSuccess" /\ blast.subject.kind = "enemy"
    /\ Len(blast.bwhere) > 0
    /\ Abs(blast.bwhere[1]) = 240
    /\ blast.left = <<>>
    /\ \E i \in DOMAIN blast.knocked : Abs(blast.where[i]) = 240


\* C14: in a gameplay frame in which no QTE is triggered, every active bullet
\* that overlaps the player's bullet circle is deactivated, and bulletDamageFrame
\* becomes the current frameCount only if the player takes the damage.
C14_OverlappingBulletsDeactivated ==
    [][(/\ Top(scenes) = "gameplay"
        /\ frameCount' = frameCount + 1
        /\ ~ev'.frozen
        /\ ev'.trigger = NoSubject)
          => /\ ev'.missed = 0
             /\ (bulletDamageFrame' # bulletDamageFrame)
                   => /\ bulletDamageFrame' = frameCount'
                      /\ ev'.bulletDmg
                      /\ player'.lives < player.lives]_vars


\* C15: a Letter fires exactly one bullet per aiming-to-firing cycle and never
\* has more than one bullet of its own in flight, knockbacks included.
LetterBullets == {i \in ActiveSlots(pool) : pool[i].by = "letter"}

C15_LetterSingleFlight ==
    [][/\ Cardinality(LetterBullets') <= 1
       /\ letter'.shots - letter.shots \in {0, 1}
       /\ (letter'.shots = letter.shots + 1)
             <=> (letter.state = "aiming" /\ letter'.state = "waiting")]_vars

C15_Witness ==
    /\ letter.shots >= 2
    /\ letter.state = "waiting"
    /\ Cardinality(LetterBullets) = 1
    /\ \E id \in 1..Len(trail.died) : trail.died[id].dead

\* C16: a Letter in waiting stays there until the very bullet it fired is
\* deactivated, and then teleports to the place where that bullet was
\* deactivated, whatever other enemies spawn into the pool in between.
C16_LetterFollowsOwnBullet ==
    [][/\ (letter.state = "waiting" /\ letter'.state = "teleporting")
            => letter'.x = trail'.died[letter.fired].x
       /\ (letter'.state = "waiting" /\ trail'.ticks = trail.ticks + 1)
            => ~trail'.died[letter'.fired].dead]_vars

\* C17: every change of an enemy's state calls onStateExit(old) exactly once while
\* the old state is still assigned, then assigns the new state with stateTimer 0
\* and calls onStateEnter(new) exactly once, also when an enter hook starts the
\* next change itself; a call that leaves the state as it was fires no hook and
\* does not reset stateTimer.
C17_HooksOncePerTransition ==
    [][LET log == machine'.log
           n == Len(log)
       IN  /\ n % 2 = 0
           /\ \A k \in 1..(n \div 2) :
                /\ log[2 * k - 1].hook = "onStateExit"
                /\ log[2 * k - 1].arg = log[2 * k - 1].state
                /\ log[2 * k - 1].arg = (IF k = 1 THEN machine.state ELSE log[2 * k - 2].arg)
                /\ log[2 * k].hook = "onStateEnter"
                /\ log[2 * k].arg = log[2 * k].state
                /\ log[2 * k].arg # log[2 * k - 1].arg
                /\ log[2 * k].stateTimer = 0
           /\ n > 0 => /\ machine'.state = log[n].arg
                       /\ machine'.stateTimer = 0
           /\ (n = 0 \/ machine'.state = machine.state)
                => /\ n = 0
                   /\ machine'.state = machine.state
                   /\ machine'.stateTimer = machine.stateTimer + machine'.dt]_vars

\* a Cowboy's update has gone from telegraph through firing to cooldown
C17_Witness ==
    /\ machine.type = "cowboy"
    /\ machine.call = "update"
    /\ machine.state = "cooldown"
    /\ Len(machine.log) = 4
    /\ machine.log[1].stateTimer > 0

\* C18: immediately after applyKnockback returns the enemy is in its type's
\* default state (a Heart fleeing or pathfinding), whatever state it was in.
C18_KnockbackResets ==
    [][machine'.call = "applyKnockback"
         => \/ machine'.state = DefaultState(machine.type)
            \/ machine.type = "heart" /\ machine'.state = "pathfinding"]_vars

\* a Gopher that was not underground has been knocked back
C18_Witness ==
    /\ machine.type = "gopher"
    /\ machine.call = "applyKnockback"
    /\ Len(machine.log) = 2
    /\ machine.log[1].arg = "burrowing"
    /\ machine.state = "underground"

\* C19: every call of BulletPool.spawn returns an active bullet initialised with
\* the requested parameters, in an inactive slot if there is one and in a new
\* slot at the end of the pool otherwise, and leaves every bullet that was
\* active before the call as it was.
C19_SpawnAsRequested ==
    [][trail'.serial = trail.serial + 1
         => LET k == trail'.spawn.slot
                req == trail'.spawn.req
            IN  /\ k \in 1..Len(pool')
                /\ pool'[k].active
                /\ pool'[k].x = req.x
                /\ pool'[k].vx = req.vx
                /\ pool'[k].color = req.color
                /\ pool'[k].radius = req.radius
                /\ pool'[k].maxLifetime = req.lifetime
                /\ pool'[k].lifetime = 0
                /\ ~pool'[k].fading
                /\ IF \E i \in 1..Len(pool) : ~pool[i].active
                   THEN k <= Len(pool) /\ ~pool[k].active /\ Len(pool') = Len(pool)
                   ELSE k = Len(pool) + 1 /\ Len(pool') = Len(pool) + 1
                /\ \A i \in ActiveSlots(pool) : pool'[i] = pool[i]]_vars

Fading(pl) == {i \in ActiveSlots(pl) : pl[i].fading}

\* C20: when an update finds SOFT_CAP + 1 bullets active, none of them fading
\* yet, it puts exactly one bullet into the fading state, an oldest one by
\* elapsed lifetime, still active with its fade at its start; and whatever an
\* update deactivates has reached its lifetime, finished its fade or hit a wall.
C20_OldestFades ==
    [][trail'.ticks = trail.ticks + 1
         => /\ (/\ Cardinality(ActiveSlots(pool)) = SOFT_CAP + 1
                /\ Cardinality(ActiveSlots(pool')) = SOFT_CAP + 1
                /\ Fading(pool) = {})
               => /\ Cardinality(Fading(pool')) = 1
                  /\ \A i \in Fading(pool') :
                       /\ pool'[i].fadeTimer = 0
                       /\ \A j \in ActiveSlots(pool') :
                            pool'[j].lifetime <= pool'[i].lifetime
            /\ \A i \in ActiveSlots(pool) \ ActiveSlots(pool') :
                 \/ pool[i].lifetime + trail'.update.dt >= pool[i].maxLifetime
                 \/ pool[i].fading
                      /\ pool[i].fadeTimer + trail'.update.dt >= FADE_DURATION
                 \/ i \in trail'.update.walled]_vars

\* two spawns onto 199 bullets, then an update: the one bullet fading is an
\* oldest one, in a slot that was taken again
C20_Witness ==
    /\ trail.serial = 2
    /\ trail.ticks = 1
    /\ Cardinality(ActiveSlots(pool)) = SOFT_CAP + 1
    /\ Cardinality(Fading(pool)) = 1
    /\ \A i \in Fading(pool) : i > 1 /\ pool[i].fadeTimer = 0

\* C21: a pool update deactivates every active bullet whose lifetime reaches
\* maxLifetime in it or that overlaps a wall in it, fading or not, so no bullet
\* is active with its lifetime at or beyond maxLifetime.
C21_ExpiryAndWallsDeactivate ==
    [][trail'.ticks = trail.ticks + 1
         => /\ \A i \in ActiveSlots(pool) :
                 (\/ pool[i].lifetime + trail'.update.dt >= pool[i].maxLifetime
                  \/ i \in trail'.update.walled)
                   => ~pool'[i].active
            /\ \A i \in ActiveSlots(pool') :
                 pool'[i].lifetime < pool'[i].maxLifetime]_vars

\* an update took a bullet in the middle of its fade out at a wall, and another
\* update ended a fading bullet by its lifetime
C21_Witness ==
    /\ trail.ticks = PoolFrames
    /\ \E i \in trail.update.walled :
         /\ ~pool[i].active
         /\ pool[i].fading
         /\ pool[i].fadeTimer < FADE_DURATION
         /\ pool[i].lifetime < pool[i].maxLifetime
    /\ \E j \in 1..Len(pool) :
         /\ ~pool[j].active
         /\ pool[j].fading
         /\ pool[j].lifetime >= pool[j].maxLifetime

C23_ClampsBelowDepthOne ==
    (unit.kind = "difficulty" /\ unit.depth <= 0)
      => /\ unit.tuning.levelTime = 60
         /\ unit.tuning.qteTime = 5 * TicksPerSecond
         /\ unit.tuning.tapTarget = 5
         /\ unit.tuning = Tuning(1)

\* C24: getLevelTimeLimit is non-increasing in depth and never below 30;
\* getGeneratorTapTarget is non-decreasing in depth and never above 15.
C24_Monotone ==
    unit.kind = "difficulty"
      => /\ unit.tuning.levelTime >= 30
         /\ unit.tuning.tapTarget <= 15
         /\ unit.lastDepth <= unit.depth
              => /\ unit.tuning.levelTime <= unit.last.levelTime
                 /\ unit.tuning.tapTarget >= unit.last.tapTarget

\* from one depth to a deeper one the time limit has fallen to its floor and
\* the tap target has risen to its ceiling
C24_Witness ==
    /\ unit.kind = "difficulty"
    /\ unit.lastDepth < unit.depth
    /\ unit.last.levelTime > 30
    /\ unit.tuning.levelTime = 30
    /\ unit.last.tapTarget < 15
    /\ unit.tuning.tapTarget = 15
    /\ unit.depth > 31

\* C25: when the subject's qteType matches no mini-game class the scene runs the
\* base QTE: with the scene on top and the splash over, a step that is not the
\* pause key either counts the frame's time and leaves everything else alone, or
\* reaches the time limit, and then the fail callback is the one reported, the
\* result is a failure by timeout, the scene is popped, gameplay is on top and no
\* QTE is active; nothing else (a click, a key) changes the state
C25_FallbackTimesOut ==
    [][(/\ Top(scenes) = "qte"
        /\ qteScene.splashDone
        /\ createQTE(qteTypeOf(qteScene.enemy)) = "QTE"
        /\ Top(scenes') # "pause")
       => \/ /\ qteScene.qte.elapsed + frameTime < qteScene.qte.timeLimit
             /\ qteScene' = [qteScene EXCEPT !.qte.elapsed = @ + frameTime]
             /\ ~qteScene'.qte.completed
             /\ scenes' = scenes
             /\ called' = called
             /\ qteActive' = qteActive
          \/ /\ qteScene.qte.elapsed + frameTime >= qteScene.qte.timeLimit
             /\ scenes' = Pop(scenes)
             /\ Top(scenes') = "gameplay"
             /\ called' = <<"onFail">>
             /\ finished' = [expired |-> TRUE, completed |-> TRUE, result |-> "fail"]
             /\ qteScene' = NoScene
             /\ ~qteActive']_vars

C25_Witness ==
    /\ createQTE(enemies[1].type) = "QTE"
    /\ called = <<"onFail">>
    /\ finished.expired
    /\ finished.result = "fail"
    /\ Top(scenes) = "gameplay"
    /\ ~qteActive
    /\ frameCount > 1

\* the first click came while the draw signal had been up for less than the
\* reaction window
ClickInWindow ==
    /\ unit.clickAt >= 0
    /\ unit.signalAt >= 0
    /\ unit.signalAt <= unit.clickAt
    /\ unit.clickAt < unit.signalAt + REACT_WINDOW

\* C26: CowboyQTE has succeeded exactly when the first click came within the
\* 0.6 s after the draw signal; a first click before the signal has failed it at
\* once, whatever time remained; and once the window has passed without that
\* click the QTE has failed
C26_SucceedsIffClickInWindow ==
    unit.kind = "cowboy" =>
        /\ (unit.q.qte.result = "success") <=> ClickInWindow
        /\ (unit.clickAt >= 0 /\ (unit.signalAt < 0 \/ unit.clickAt < unit.signalAt))
             => (unit.q.qte.result = "fail" /\ unit.q.qte.elapsed = unit.clickAt)
        /\ (unit.signalAt >= 0 /\ unit.now >= unit.signalAt + REACT_WINDOW
              /\ ~ClickInWindow)
             => unit.q.qte.result = "fail"

\* angle a is within tol degrees of angle b, going round the circle either way
WithinOf(a, b, tol) == \E turns \in -2..2 : Abs(a - b + 360 * turns) <= tol

\* C27: in ClockQTE the first left click locks the angle the hand points at as the
\* hour angle, moves to the minute phase and leaves the QTE pending, whatever
\* the angle; the second click completes it, as a success iff the locked hour
\* angle is within the hour tolerance of the target hour angle and the current
\* angle within the minute tolerance of the target minute angle, and as a
\* failure otherwise
C27_SecondClickResolves ==
    [][(unit.kind = "clock" /\ unit'.clicks = unit.clicks + 1)
       => IF unit.clicks = 0
          THEN /\ unit'.q = [unit.q EXCEPT !.lockedHourAngle = unit.q.currentAngle,
                                           !.phase = "minute"]
               /\ ~unit'.q.qte.completed
               /\ unit'.q.qte.result = "null"
          ELSE /\ unit.clicks = 1
               /\ unit'.q.qte.completed
               /\ unit'.q.qte.result \in {"success", "fail"}
               /\ (unit'.q.qte.result = "success")
                    <=> (/\ WithinOf(unit.q.lockedHourAngle, unit.q.targetHourAngle,
                                     HOUR_TOLERANCE)
                         /\ WithinOf(unit.q.currentAngle, unit.q.targetMinuteAngle,
                                     MINUTE_TOLERANCE))]_vars

\* 11:45 set with the hour hand locked at -120 degrees (240 the other way round)
\* and the minute hand at the edge of its tolerance
C27_Witness ==
    /\ unit.kind = "clock"
    /\ unit.clicks = 2
    /\ unit.q.qte.result = "success"
    /\ unit.q.targetHourAngle = 240
    /\ unit.q.lockedHourAngle = -120
    /\ unit.q.currentAngle = 150

\* the next heart to hit, a heart past every position once all are hit
NextHeartOf(c) ==
    IF c.nextHeart < c.heartCount THEN c.hearts[c.nextHeart + 1]
    ELSE [x |-> CANVAS_WIDTH * HeartUnit, hit |-> TRUE, missed |-> FALSE]

\* the distance, in pixels rounded down, of a heart from the hit line
OffLine(h) == Abs(h.x - TARGET_X * HeartUnit) \div HeartUnit

\* C28: in HeartQTE a click while the next un-hit heart is within 36 px of the
\* hit line marks that heart hit and moves on to the one after it, and the QTE
\* succeeds on the click that hits the last heart, so that a success has every
\* heart hit, in order; a click while the next heart is further than 36 px from
\* the line fails the QTE on the spot; so does a frame that scrolls the next
\* heart past the line by more than 36 px
C28_HitsInOrder ==
    [][unit.kind = "heart" =>
        LET c == unit.q
            d == unit'.q
            h == NextHeartOf(c)
        IN  /\ (unit'.clicks = unit.clicks + 1 /\ c.nextHeart < c.heartCount)
                 => IF Abs(h.x - TARGET_X * HeartUnit) <= 36 * HeartUnit
                    THEN /\ d.nextHeart = c.nextHeart + 1
                         /\ d.hearts[d.nextHeart].hit
                         /\ d.qte.completed <=> (d.nextHeart = d.heartCount)
                         /\ d.qte.completed => d.qte.result = "success"
                    ELSE /\ d.qte.completed
                         /\ d.qte.result = "fail"
                         /\ d.nextHeart = c.nextHeart
            /\ (unit'.frames = unit.frames + 1
                  /\ NextHeartOf(d).x > (TARGET_X + 36) * HeartUnit)
                 => (d.qte.completed /\ d.qte.result = "fail")
            /\ \A i \in 1..d.heartCount : d.hearts[i].hit <=> (i <= d.nextHeart)
            /\ d.qte.result = "success" => d.nextHeart = d.heartCount]_vars

\* five hearts hit one after the other, the last of them as it came into the
\* tolerance
C28_Witness ==
    /\ unit.kind = "heart"
    /\ unit.q.heartCount = 5
    /\ unit.q.qte.result = "success"
    /\ unit.clicks = 5
    /\ OffLine(unit.q.hearts[5]) >= 30

\* C29: GopherQTE never fails because of a click: a frame with a click outside
\* every hole, or on a hole that is not popped when the click is looked at, ends
\* with the whack count, the holes and the result that the same frame has
\* without the click; and the QTE is failed only by the frame on which the
\* elapsed time reaches the time limit
C29_ClicksNeverFail ==
    [][(unit.kind = "gopher" /\ unit'.frames = unit.frames + 1)
       => /\ (unit'.click = 0
                \/ (unit'.click >= 1 /\ ~unit'.quiet.holes[unit'.click].active))
               => /\ unit'.q.whacked = unit.q.whacked
                  /\ unit'.q.holes = unit'.quiet.holes
                  /\ unit'.q.qte = unit'.quiet.qte
          /\ unit'.q.qte.result = "fail"
               => /\ unit.q.qte.elapsed < unit.q.qte.timeLimit
                  /\ unit'.q.qte.elapsed >= unit'.q.qte.timeLimit
                  /\ unit'.quiet.qte.result = "fail"]_vars

\* a click on an empty hole while a gopher is up elsewhere, one whack in
C29_Witness ==
    /\ unit.kind = "gopher"
    /\ unit.click >= 1
    /\ ~unit.quiet.holes[unit.click].active
    /\ \E j \in 1..HoleCount : unit.q.holes[j].active
    /\ unit.q.whacked >= 1
    /\ ~unit.q.qte.completed

\* C30: an underground Gopher that can trigger a QTE went underground less than
\* 0.15 s of play time ago; from the moment a stay underground has lasted 0.15 s
\* the gopher cannot trigger a QTE for the rest of that stay
C30_GraceWindowOnly ==
    (unit.kind = "burrow" /\ unit.e.state = "underground" /\ canTriggerQTE(unit.e))
        => unit.under * 100 < 15 * TicksPerSecond

\* a live gopher still underground after its grace window, out of reach
C30_Witness ==
    /\ unit.kind = "burrow"
    /\ unit.e.state = "underground"
    /\ unit.e.active
    /\ unit.under * 100 >= 15 * TicksPerSecond
    /\ ~canTriggerQTE(unit.e)

\* C31: a Bat in the lunge state cannot trigger a QTE, and an active Bat in the
\* flutter state (never stunned) can; the enemy a QTE was triggered for on a
\* frame is no lunging bat
C31_LungeImmunity ==
    /\ \A i \in Indices(enemies) :
         enemies[i].type = "bat"
           => /\ enemies[i].state = "lunge" => ~canTriggerQTE(enemies[i])
              /\ (enemies[i].state = "flutter" /\ enemies[i].active
                    /\ enemies[i].state # "stunned") => canTriggerQTE(enemies[i])
    /\ (ev.trigger.kind = "enemy" /\ enemies[ev.trigger.idx].type = "bat")
         => enemies[ev.trigger.idx].state # "lunge"

\* a lunging bat has just hit the player instead of starting a QTE
C31_Witness ==
    /\ ev.lungeDmg
    /\ ev.trigger.kind = "none"
    /\ \E i \in Indices(enemies) :
         enemies[i].type = "bat" /\ enemies[i].state = "lunge" /\ enemies[i].active

\* C32: for every enemy the anticipation cue is emitted exactly once each time
\* isAnticipating goes from false to true: the cues played never outnumber the
\* entries into an anticipating state, and fall behind them by at most the one
\* entry whose update has not run yet.
C32_CueOncePerEntry ==
    unit.kind = "cue"
      => /\ unit.cues <= unit.entries
         /\ unit.entries <= unit.cues + 1

\* C33: from any nonzero knockback velocity, updates at a fixed dt bring the
\* velocity to exactly (0, 0) within a bounded time: a velocity that is still
\* nonzero has been decaying for less than SettleTicks, and each update of a
\* sliding enemy shrinks both components or zeroes the velocity.
C33_KnockbackSettles ==
    [][(unit.kind = "knock" /\ unit.v # <<0, 0>> /\ unit'.since > unit.since)
         => /\ \/ unit'.v = <<0, 0>>
               \/ /\ unit'.since < SettleTicks
                  /\ Abs(unit'.v[1]) <= Abs(unit.v[1])
                  /\ Abs(unit'.v[2]) <= Abs(unit.v[2])
                  /\ Abs(unit'.v[1]) + Abs(unit'.v[2]) < Abs(unit.v[1]) + Abs(unit.v[2])]_vars

C33_Witness ==
    /\ unit.kind = "knock"
    /\ unit.v = <<0, 0>>
    /\ unit.since > TicksPerSecond

\* C35: qteActive is true exactly while a QTE scene pushed by the gameplay scene
\* is on the scene stack, whatever the sequence of triggers, pauses, resumes and
\* pause-menu choices.
C35_ActiveIffSceneOnStack ==
    qteActive <=> \E i \in 1..Len(scenes) : scenes[i] = "qte"

\* C36: every enemy on which startFall(d) was called lands: once d seconds of
\* updates have elapsed, falling is false and justLanded has been raised, for
\* every enemy type that can be spawned with a fall.
C36_FallersLand ==
    (unit.kind = "fall" /\ unit.played >= unit.e.fallDuration)
      => ~unit.e.falling /\ unit.landed

\* C40: after every BulletPool.update the number of active bullets that are not
\* fading is at most SOFT_CAP, whatever spawns, expiries and wall hits came
\* before it.
C40_SoftCapBoundsLiveSet ==
    [][trail'.ticks = trail.ticks + 1
         => Cardinality(ActiveSlots(pool') \ Fading(pool')) <= SOFT_CAP]_vars

\* three spawns onto 199 bullets with an update between them: the second update
\* finds 202 active, one of them fading already, and leaves 200 not fading
C40_Witness ==
    /\ trail.ticks = PoolFrames
    /\ trail.serial = MaxShots
    /\ Cardinality(ActiveSlots(pool)) = SOFT_CAP + 2
    /\ Cardinality(Fading(pool)) = 2
    /\ \E i, j \in Fading(pool) : pool[i].fadeTimer > 0 /\ pool[j].fadeTimer = 0

\* C34: in a boss level a won enemy QTE takes one HP from the boss while it has
\* any, no other step changes the boss's HP, the HP never goes below 0, and the
\* exit hole is open exactly when the HP is 0
C34_BossHP ==
    [][(run.on /\ level.type = "BOSS")
         => /\ run'.wins - run.wins \in {0, 1}
            /\ bossHP' = IF run'.wins > run.wins /\ bossHP > 0 THEN bossHP - 1 ELSE bossHP
            /\ bossHP' \in 0..BOSS_MAX_HP
            /\ run'.exitHole <=> bossHP' = 0
            /\ bossHP' = Max(0, BOSS_MAX_HP - run'.wins)]_vars

C34_Witness ==
    /\ run.on /\ level.type = "BOSS"
    /\ bossHP = 0 /\ run.exitHole
    /\ run.wins > BOSS_MAX_HP
    /\ Top(scenes) = "gameplay"

\* C37: once the player is dead nothing but the game-over scene follows: no frame
\* starts a level transition with a dead player, and while the player is dead and
\* the game-over scene is not pushed yet no QTE is triggered and the life count
\* stays; the game-over scene is pushed at most once
C37_DeathIsTerminal ==
    [][(run.on /\ run'.on)
         => /\ (run.transition.phase = "none" /\ run'.transition.phase = "falling")
                 => ~player'.dead
            /\ (player.dead /\ ~gameOverPushed)
                 => /\ player'.lives = player.lives
                    /\ Top(scenes') # "qte"
                    /\ run'.transition.phase = "none"
            /\ run'.overs <= 1]_vars

C39_OneLifePerFrame ==
    [][(run.on /\ frameCount' # frameCount) => player'.lives >= player.lives - 1]_vars

C39_Witness ==
    /\ run.on
    /\ ev.landDmg /\ ev.missed >= 2 /\ ev.lungeNear /\ ev.fled
    /\ player.lives = PLAYER_MAX_LIVES - 1
    /\ run.transition.phase = "falling"

====
